---- MODULE Spec2Model ----
(***************************************************************************)
(* ptrui: a two-pane modal editor whose edits trigger a debounced          *)
(* translation of the active pane into the other pane.                     *)
(*                                                                         *)
(* Text is a sequence of one-character strings; NL is the line feed and CR *)
(* the carriage return.  Rows and columns are 0-based as in the source.    *)
(* An Instant is represented by its age in milliseconds: Instant::now()    *)
(* has age 0 and elapsed() is the age; ages stop growing at MaxAge.        *)
(***************************************************************************)
EXTENDS Integers, Sequences, FiniteSets, TLC

VARIABLES
    active,               \* App.active
    input,                \* App.input   (left TextArea)
    output,               \* App.output  (right TextArea)
    left_vim,             \* App.left_vim
    right_vim,            \* App.right_vim
    left_language,        \* App.left_language
    right_language,       \* App.right_language
    pending_translation,  \* App.pending_translation
    last_edit,            \* App.last_edit
    error,                \* App.error
    picker,               \* App.picker
    pc,                   \* position of run_app's loop
    keys_left,            \* key events the environment may still deliver
    since_arm,            \* history: age of the most recent arming event
    fired,                \* history: Translator calls by debounce passes since then
    edited,               \* history: the pane whose text the most recent arming changed
    ev,                   \* history: what the most recent step did
    visual_by,            \* history: per pane, the key that entered Visual ("" outside Visual)
    at_open               \* history: the session as it was when the open picker was opened

vars == <<active, input, output, left_vim, right_vim, left_language,
          right_language, pending_translation, last_edit, error, picker,
          pc, keys_left, since_arm, fired, edited, ev, visual_by, at_open>>

----------------------------------------------------------------------------
(* Bounds of the exploration *)

MaxKeys == 3
MaxEditKeys == 3
MaxAge == 400
MaxLines == 3
MaxCols == 3
MaxPickerKeys == 3

(* Program constants *)

TRANSLATION_DEBOUNCE == 350
poll_rate == 100
MaxQueryLen == 32

----------------------------------------------------------------------------
(* Generic helpers *)

None == [tag |-> "None"]
Some(v) == [tag |-> "Some", val |-> v]
IsSome(o) == o.tag = "Some"

\* the value of F at e, with e evaluated once
With(e, F(_)) == CHOOSE v \in {F(x) : x \in {e}} : TRUE

Min(a, b) == IF a < b THEN a ELSE b
Max(a, b) == IF a < b THEN b ELSE a

NL == "\n"
CR == "\r"

Take(s, n) == SubSeq(s, 1, n)
Drop(s, n) == SubSeq(s, n + 1, Len(s))

RECURSIVE Concat(_)
Concat(ss) == IF ss = <<>> THEN <<>> ELSE Head(ss) \o Concat(Tail(ss))

\* [T]::join("\n")
RECURSIVE Join(_)
Join(ls) ==
    IF ls = <<>> THEN <<>>
    ELSE IF Len(ls) = 1 THEN ls[1]
    ELSE ls[1] \o <<NL>> \o Join(Tail(ls))

\* str::split_inclusive('\n'): the pieces, each keeping its terminator
RECURSIVE SplitInclusive(_, _)
SplitInclusive(text, acc) ==
    IF text = <<>> THEN (IF acc = <<>> THEN <<>> ELSE <<acc>>)
    ELSE IF Head(text) = NL
         THEN <<acc \o <<NL>>>> \o SplitInclusive(Tail(text), <<>>)
         ELSE SplitInclusive(Tail(text), acc \o <<Head(text)>>)

\* the closure of str::lines(): strip one "\n", then one "\r" before it
StripLineEnding(piece) ==
    IF piece # <<>> /\ piece[Len(piece)] = NL
    THEN LET l == Take(piece, Len(piece) - 1)
         IN IF l # <<>> /\ l[Len(l)] = CR THEN Take(l, Len(l) - 1) ELSE l
    ELSE piece

\* str::lines()
StrLines(text) ==
    LET pieces == SplitInclusive(text, <<>>)
    IN [i \in 1..Len(pieces) |-> StripLineEnding(pieces[i])]

IsWhitespace(c) == c \in {" ", NL, CR, "\t"}

\* str::trim().is_empty()
TrimIsEmpty(text) == \A i \in 1..Len(text) : IsWhitespace(text[i])

----------------------------------------------------------------------------
(* TextArea: the line buffer with cursor, selection anchor, yank text and  *)
(* edit history that the editor drives.  A history entry holds the lines   *)
(* and cursor an undo (redo) of that edit restores.                        *)

\* TextArea::new: at least one line, cursor at the origin, nothing else
NewTextArea(ls) ==
    [lines  |-> IF ls = <<>> THEN << <<>> >> ELSE ls,
     cursor |-> <<0, 0>>,
     sel    |-> None,
     yank   |-> << <<>> >>,
     undo   |-> <<>>,
     redo   |-> <<>>]

\* TextArea::default()
DefaultTextArea == NewTextArea(<< <<>> >>)

Row(ta) == ta.cursor[1]
Col(ta) == ta.cursor[2]
LineAt(ls, row) == ls[row + 1]

fit_col(col, line) == Min(col, Len(line))

CharKind(c) ==
    IF IsWhitespace(c) THEN "Space"
    ELSE IF c \in {".", ",", "$", "^", "-"} THEN "Punct"
    ELSE "Other"

\* kind of the character at 0-based column col
KindAt(line, col) == CharKind(line[col + 1])

SetMin(S) == CHOOSE x \in S : \A y \in S : x <= y

find_word_start_forward(line, start_col) ==
    IF start_col >= Len(line) THEN None
    ELSE LET hits == {col \in (start_col + 1)..(Len(line) - 1) :
                         /\ KindAt(line, col) # "Space"
                         /\ KindAt(line, col - 1) # KindAt(line, col)}
         IN IF hits = {} THEN None ELSE Some(SetMin(hits))

find_word_inclusive_end_forward(line, start_col) ==
    IF start_col >= Len(line) THEN None
    ELSE LET hits == {col \in (start_col + 1)..(Len(line) - 1) :
                         /\ KindAt(line, col - 1) # "Space"
                         /\ KindAt(line, col) # KindAt(line, col - 1)}
         IN IF hits # {} THEN Some(SetMin(hits) - 1)
            ELSE IF KindAt(line, Len(line) - 1) # "Space"
                 THEN Some(Len(line) - 1)
                 ELSE None

find_word_start_backward(line, start_col) ==
    LET n == Min(start_col, Len(line))
    IN IF n = 0 THEN None
       ELSE LET hits == {i \in 1..(n - 1) :
                            /\ KindAt(line, start_col - i) # "Space"
                            /\ KindAt(line, start_col - 1 - i) # KindAt(line, start_col - i)}
            IN IF hits # {} THEN Some(start_col - SetMin(hits))
               ELSE IF KindAt(line, 0) # "Space" THEN Some(0) ELSE None

\* the loop of CursorMove::WordEnd over the following rows
RECURSIVE WordEndBelow(_, _)
WordEndBelow(ls, row) ==
    IF row = Len(ls) - 1 THEN <<row, Len(LineAt(ls, row))>>
    ELSE LET f == find_word_inclusive_end_forward(LineAt(ls, row + 1), 0)
         IN IF IsSome(f) THEN <<row + 1, f.val>> ELSE WordEndBelow(ls, row + 1)

\* CursorMove::next_cursor: the position a motion leads to, None when it
\* leads nowhere
next_cursor(m, cursor, ls) ==
    LET row == cursor[1]
        col == cursor[2]
        line == LineAt(ls, row)
    IN CASE m = "Forward" ->
              IF col >= Len(line)
              THEN (IF row + 1 < Len(ls) THEN Some(<<row + 1, 0>>) ELSE None)
              ELSE Some(<<row, col + 1>>)
         [] m = "Back" ->
              IF col = 0
              THEN (IF row = 0 THEN None
                    ELSE Some(<<row - 1, Len(LineAt(ls, row - 1))>>))
              ELSE Some(<<row, col - 1>>)
         [] m = "Up" ->
              IF row = 0 THEN None
              ELSE Some(<<row - 1, fit_col(col, LineAt(ls, row - 1))>>)
         [] m = "Down" ->
              IF row + 1 >= Len(ls) THEN None
              ELSE Some(<<row + 1, fit_col(col, LineAt(ls, row + 1))>>)
         [] m = "Head" -> Some(<<row, 0>>)
         [] m = "End" -> Some(<<row, Len(line)>>)
         [] m = "Top" -> Some(<<0, fit_col(col, LineAt(ls, 0))>>)
         [] m = "Bottom" ->
              Some(<<Len(ls) - 1, fit_col(col, LineAt(ls, Len(ls) - 1))>>)
         [] m = "WordEnd" ->
              LET f == find_word_inclusive_end_forward(line, col + 1)
              IN IF IsSome(f) THEN Some(<<row, f.val>>)
                 ELSE Some(WordEndBelow(ls, row))
         [] m = "WordForward" ->
              LET f == find_word_start_forward(line, col)
              IN IF IsSome(f) THEN Some(<<row, f.val>>)
                 ELSE IF row + 1 < Len(ls) THEN Some(<<row + 1, 0>>)
                 ELSE Some(<<row, Len(line)>>)
         [] m = "WordBack" ->
              LET f == find_word_start_backward(line, col)
              IN IF IsSome(f) THEN Some(<<row, f.val>>)
                 ELSE IF row > 0 THEN Some(<<row - 1, Len(LineAt(ls, row - 1))>>)
                 ELSE Some(<<row, 0>>)

start_selection(ta) == [ta EXCEPT !.sel = Some(ta.cursor)]
cancel_selection(ta) == [ta EXCEPT !.sel = None]

\* TextArea::move_cursor_with_shift
move_cursor_with_shift(ta, m, shift) ==
    With(ta, LAMBDA t :
    With(next_cursor(m, t.cursor, t.lines), LAMBDA nc :
        IF IsSome(nc)
        THEN [t EXCEPT !.cursor = nc.val,
                       !.sel = IF shift
                               THEN (IF IsSome(t.sel) THEN t.sel ELSE Some(t.cursor))
                               ELSE None]
        ELSE t))

\* TextArea::move_cursor: the selection, when there is one, follows the cursor
move_cursor(ta, m) ==
    With(ta, LAMBDA t : move_cursor_with_shift(t, m, IsSome(t.sel)))

\* TextArea::scroll: the viewport moves and the cursor is brought into it;
\* where that is depends on the viewport, so the cursor may end at any
\* position `to` of the buffer; the selection, when there is one, follows
scroll(ta, to) == [ta EXCEPT !.cursor = to]

Positions(ta) ==
    UNION {{<<r, c>> : c \in 0..Len(LineAt(ta.lines, r))} :
               r \in 0..(Len(ta.lines) - 1)}

----------------------------------------------------------------------------
(* TextArea: edits *)

\* an edit and History::push: the lines and the cursor change, the edit
\* joins the undo list and the redo list is dropped
Edited(ta, before_cursor, new_lines, new_cursor) ==
    [ta EXCEPT !.lines = new_lines,
               !.cursor = new_cursor,
               !.undo = Append(ta.undo,
                   [before |-> [lines |-> ta.lines, cursor |-> before_cursor],
                    after  |-> [lines |-> new_lines, cursor |-> new_cursor]]),
               !.redo = <<>>]

PosLess(p, q) == p[1] < q[1] \/ (p[1] = q[1] /\ p[2] < q[2])

\* TextArea::selection_positions: the ordered ends of the selection, None
\* when there is no anchor or the selection is empty
selection_positions(ta) ==
    IF ~IsSome(ta.sel) THEN None
    ELSE IF PosLess(ta.sel.val, ta.cursor) THEN Some(<<ta.sel.val, ta.cursor>>)
    ELSE IF ta.sel.val = ta.cursor THEN None
    ELSE Some(<<ta.cursor, ta.sel.val>>)

\* the lines between two positions, as copy and delete_range collect them
ChunkBetween(ls, s, e) ==
    IF s[1] = e[1]
    THEN << SubSeq(LineAt(ls, s[1]), s[2] + 1, e[2]) >>
    ELSE << Drop(LineAt(ls, s[1]), s[2]) >>
         \o SubSeq(ls, s[1] + 2, e[1])
         \o << Take(LineAt(ls, e[1]), e[2]) >>

\* TextArea::copy: the selection goes to the yank text and is given up
copy(ta) ==
    With(ta, LAMBDA t :
    With(selection_positions(t), LAMBDA r :
        IF IsSome(r)
        THEN [t EXCEPT !.sel = None,
                       !.yank = ChunkBetween(t.lines, r.val[1], r.val[2])]
        ELSE [t EXCEPT !.sel = None]))

\* TextArea::delete_range
delete_range(ta, s, e, should_yank) ==
    Edited([ta EXCEPT !.yank = IF should_yank THEN ChunkBetween(ta.lines, s, e)
                               ELSE ta.yank],
           e,
           Take(ta.lines, s[1])
               \o << Take(LineAt(ta.lines, s[1]), s[2]) \o Drop(LineAt(ta.lines, e[1]), e[2]) >>
               \o Drop(ta.lines, e[1] + 1),
           s)

\* TextArea::delete_selection, with the bool it returns
delete_selection(ta, should_yank) ==
    With(ta, LAMBDA t :
    With(selection_positions(t), LAMBDA r :
        IF IsSome(r)
        THEN [ta |-> delete_range([t EXCEPT !.sel = None], r.val[1], r.val[2], should_yank),
              done |-> TRUE]
        ELSE [ta |-> [t EXCEPT !.sel = None], done |-> FALSE]))

\* TextArea::cut
cut(ta) == delete_selection(ta, TRUE).ta

\* the line break put at the cursor
SplitLine(t) ==
    Edited(t, t.cursor,
           Take(t.lines, Row(t))
               \o << Take(LineAt(t.lines, Row(t)), Col(t)),
                     Drop(LineAt(t.lines, Row(t)), Col(t)) >>
               \o Drop(t.lines, Row(t) + 1),
           <<Row(t) + 1, 0>>)

\* TextArea::insert_newline
insert_newline(ta) ==
    With(delete_selection(ta, FALSE), LAMBDA d : SplitLine(d.ta))

\* the character put at the cursor
PutChar(t, c) ==
    Edited(t, t.cursor,
           [t.lines EXCEPT ![Row(t) + 1] =
                Take(LineAt(t.lines, Row(t)), Col(t)) \o <<c>>
                    \o Drop(LineAt(t.lines, Row(t)), Col(t))],
           <<Row(t), Col(t) + 1>>)

\* TextArea::insert_char
insert_char(ta, c) ==
    IF c \in {NL, CR} THEN insert_newline(ta)
    ELSE With(delete_selection(ta, FALSE), LAMBDA d : PutChar(d.ta, c))

\* the line of the cursor joined to the one above it
JoinUp(t) ==
    IF Row(t) = 0 THEN t
    ELSE Edited(t, t.cursor,
                Take(t.lines, Row(t) - 1)
                    \o << LineAt(t.lines, Row(t) - 1) \o LineAt(t.lines, Row(t)) >>
                    \o Drop(t.lines, Row(t) + 1),
                <<Row(t) - 1, Len(LineAt(t.lines, Row(t) - 1))>>)

\* TextArea::delete_newline
delete_newline(ta) ==
    With(delete_selection(ta, FALSE), LAMBDA d :
        IF d.done THEN d.ta ELSE JoinUp(d.ta))

\* the character before the cursor removed
RemoveBefore(t) ==
    IF Col(t) = 0 THEN JoinUp(t)
    ELSE IF Col(t) - 1 < Len(LineAt(t.lines, Row(t)))
    THEN Edited(t, t.cursor,
                [t.lines EXCEPT ![Row(t) + 1] =
                     Take(LineAt(t.lines, Row(t)), Col(t) - 1)
                         \o Drop(LineAt(t.lines, Row(t)), Col(t))],
                <<Row(t), Col(t) - 1>>)
    ELSE t

\* TextArea::delete_char: the character before the cursor
delete_char(ta) ==
    With(delete_selection(ta, FALSE), LAMBDA d :
        IF d.done THEN d.ta ELSE RemoveBefore(d.ta))

\* step forward, then delete backward
RemoveNext(t) ==
    With(move_cursor_with_shift(t, "Forward", FALSE), LAMBDA moved :
        IF moved.cursor = t.cursor THEN t ELSE RemoveBefore(moved))

\* TextArea::delete_next_char
delete_next_char(ta) ==
    With(delete_selection(ta, FALSE), LAMBDA d :
        IF d.done THEN d.ta ELSE RemoveNext(d.ta))

\* TextArea::delete_line_by_end: the rest of the line goes to the yank text;
\* at the end of the line the line break is removed
delete_line_by_end(ta) ==
    With(delete_selection(ta, FALSE), LAMBDA d :
        IF d.done THEN d.ta
        ELSE IF Col(d.ta) < Len(LineAt(d.ta.lines, Row(d.ta)))
        THEN Edited([d.ta EXCEPT !.yank = << Drop(LineAt(d.ta.lines, Row(d.ta)), Col(d.ta)) >>],
                    d.ta.cursor,
                    [d.ta.lines EXCEPT ![Row(d.ta) + 1] =
                         Take(LineAt(d.ta.lines, Row(d.ta)), Col(d.ta))],
                    d.ta.cursor)
        ELSE RemoveNext(d.ta))

\* TextArea::insert_piece / insert_chunk: the yank text enters at the cursor
insert_chunk(t, chunk) ==
    IF Len(chunk) = 1
    THEN IF chunk[1] = <<>> THEN t
         ELSE Edited(t, t.cursor,
                     [t.lines EXCEPT ![Row(t) + 1] =
                          Take(LineAt(t.lines, Row(t)), Col(t)) \o chunk[1]
                              \o Drop(LineAt(t.lines, Row(t)), Col(t))],
                     <<Row(t), Col(t) + Len(chunk[1])>>)
    ELSE Edited(t, t.cursor,
                Take(t.lines, Row(t))
                    \o << Take(LineAt(t.lines, Row(t)), Col(t)) \o chunk[1] >>
                    \o SubSeq(chunk, 2, Len(chunk) - 1)
                    \o << chunk[Len(chunk)] \o Drop(LineAt(t.lines, Row(t)), Col(t)) >>
                    \o Drop(t.lines, Row(t) + 1),
                <<Row(t) + Len(chunk) - 1, Len(chunk[Len(chunk)])>>)

\* TextArea::paste
paste(ta) ==
    With(delete_selection(ta, FALSE), LAMBDA d : insert_chunk(d.ta, d.ta.yank))

\* TextArea::undo
undo(ta) ==
    IF ta.undo = <<>> THEN ta
    ELSE [ta EXCEPT !.lines = ta.undo[Len(ta.undo)].before.lines,
                    !.cursor = ta.undo[Len(ta.undo)].before.cursor,
                    !.sel = None,
                    !.undo = Take(ta.undo, Len(ta.undo) - 1),
                    !.redo = Append(ta.redo, ta.undo[Len(ta.undo)])]

\* TextArea::redo
redo(ta) ==
    IF ta.redo = <<>> THEN ta
    ELSE [ta EXCEPT !.lines = ta.redo[Len(ta.redo)].after.lines,
                    !.cursor = ta.redo[Len(ta.redo)].after.cursor,
                    !.sel = None,
                    !.redo = Take(ta.redo, Len(ta.redo) - 1),
                    !.undo = Append(ta.undo, ta.redo[Len(ta.redo)])]

----------------------------------------------------------------------------
(* Keys *)

\* KeyCode values other than Char(c); "Other" is any code the editor has no
\* Key for
SpecialCodes ==
    {"Esc", "Enter", "Tab", "Backspace", "Delete", "Up", "Down", "Left",
     "Right", "Other"}

IsCharCode(code) == code \notin SpecialCodes

KeyEvent(kind, code, ctrl) == [kind |-> kind, code |-> code, ctrl |-> ctrl]
Press(code) == KeyEvent("Press", code, FALSE)
Ctrl(code) == KeyEvent("Press", code, TRUE)

\* Input::default()
NullInput == [key |-> "Null", ctrl |-> FALSE]

textarea_input_from_key(key) ==
    [key  |-> IF key.code = "Other" THEN "Null" ELSE key.code,
     ctrl |-> key.ctrl]

\* TextArea::input: the editor's own key bindings, used in Insert mode
textarea_input(ta, inp) ==
    CASE inp.key = "Enter" \/ (inp.key = "m" /\ inp.ctrl) -> insert_newline(ta)
      [] IsCharCode(inp.key) /\ inp.key # "Null" /\ ~inp.ctrl -> insert_char(ta, inp.key)
      [] (inp.key = "Backspace" /\ ~inp.ctrl) \/ (inp.key = "h" /\ inp.ctrl) -> delete_char(ta)
      [] (inp.key = "Delete" /\ ~inp.ctrl) \/ (inp.key = "d" /\ inp.ctrl) -> delete_next_char(ta)
      [] inp.key = "k" /\ inp.ctrl -> delete_line_by_end(ta)
      [] (inp.key = "Down" /\ ~inp.ctrl) \/ (inp.key = "n" /\ inp.ctrl) ->
             move_cursor_with_shift(ta, "Down", FALSE)
      [] (inp.key = "Up" /\ ~inp.ctrl) \/ (inp.key = "p" /\ inp.ctrl) ->
             move_cursor_with_shift(ta, "Up", FALSE)
      [] (inp.key = "Right" /\ ~inp.ctrl) \/ (inp.key = "f" /\ inp.ctrl) ->
             move_cursor_with_shift(ta, "Forward", FALSE)
      [] (inp.key = "Left" /\ ~inp.ctrl) \/ (inp.key = "b" /\ inp.ctrl) ->
             move_cursor_with_shift(ta, "Back", FALSE)
      [] inp.key = "a" /\ inp.ctrl -> move_cursor_with_shift(ta, "Head", FALSE)
      [] inp.key = "e" /\ inp.ctrl -> move_cursor_with_shift(ta, "End", FALSE)
      [] inp.key = "u" /\ inp.ctrl -> undo(ta)
      [] inp.key = "r" /\ inp.ctrl -> redo(ta)
      [] inp.key = "y" /\ inp.ctrl -> paste(ta)
      [] inp.key = "x" /\ inp.ctrl -> cut(ta)
      [] inp.key = "c" /\ inp.ctrl -> copy(ta)
      [] OTHER -> ta

----------------------------------------------------------------------------
(* Vim: the modal key interpreter of one pane *)

Normal == [name |-> "Normal", op |-> ""]
Insert == [name |-> "Insert", op |-> ""]
Visual == [name |-> "Visual", op |-> ""]
Operator(c) == [name |-> "Operator", op |-> c]

\* an unrecognized key that sends the pane back to Normal
Pending_cancels(inp) == [kind |-> "Mode", mode |-> Normal, input |-> NullInput]

Nop == [kind |-> "Nop", mode |-> Normal, input |-> NullInput]
ToMode(m) == [kind |-> "Mode", mode |-> m, input |-> NullInput]
Pending(inp) == [kind |-> "Pending", mode |-> Normal, input |-> inp]

\* Vim::new
NewVim(mode) == [mode |-> mode, pending |-> NullInput]

Ret(ta, tr) == [ta |-> ta, tr |-> tr]

IsScrollKey(inp) == inp.ctrl /\ inp.key \in {"e", "y", "d", "u", "f", "b"}

\* the doubled operator key: the anchor goes to the head of the line and the
\* cursor to the next line, or to the end of the line on the last one
OperatorLine(ta) ==
    With(start_selection(move_cursor(ta, "Head")), LAMBDA t1 :
    With(move_cursor(t1, "Down"), LAMBDA t2 :
        IF t1.cursor = t2.cursor THEN move_cursor(t2, "End") ELSE t2))

\* a final step that cuts for yank as it does for delete
Finalize_yank_cuts(mode, ta) ==
    CASE mode = Operator("y") -> Ret(cut(ta), ToMode(Normal))
      [] mode = Operator("d") -> Ret(cut(ta), ToMode(Normal))
      [] mode = Operator("c") -> Ret(cut(ta), ToMode(Insert))
      [] OTHER -> Ret(ta, Nop)

\* the step after the motion table: a pending operator is applied
Finalize(mode, ta) ==
    CASE mode = Operator("y") -> Ret(copy(ta), ToMode(Normal))
      [] mode = Operator("d") -> Ret(cut(ta), ToMode(Normal))
      [] mode = Operator("c") -> Ret(cut(ta), ToMode(Insert))
      [] OTHER -> Ret(ta, Nop)

\* a Visual operator that leaves the cursor where it is: the character
\* under the cursor stays out of the selection
Inclusive_stays(ta) == ta

\* the move of the Visual y, d and c arms before copy and cut
Inclusive(ta) == move_cursor(ta, "Forward")

\* the arms of the motion table that return a transition themselves
Command(vim, inp, ta) ==
    LET k == inp.key
        c == inp.ctrl
        mode == vim.mode
    IN CASE k = "D" -> Ret(delete_line_by_end(ta), ToMode(Normal))
         [] k = "C" -> Ret(cancel_selection(delete_line_by_end(ta)), ToMode(Insert))
         [] k = "p" -> Ret(paste(ta), ToMode(Normal))
         [] k = "u" /\ ~c -> Ret(undo(ta), ToMode(Normal))
         [] k = "r" /\ c -> Ret(redo(ta), ToMode(Normal))
         [] k = "x" -> Ret(delete_next_char(ta), ToMode(Normal))
         [] k = "i" -> Ret(cancel_selection(ta), ToMode(Insert))
         [] k = "a" -> Ret(move_cursor(cancel_selection(ta), "Forward"), ToMode(Insert))
         [] k = "A" -> Ret(move_cursor(cancel_selection(ta), "End"), ToMode(Insert))
         [] k = "o" -> Ret(insert_newline(move_cursor(ta, "End")), ToMode(Insert))
         [] k = "O" -> Ret(move_cursor(insert_newline(move_cursor(ta, "Head")), "Up"),
                           ToMode(Insert))
         [] k = "I" -> Ret(move_cursor(cancel_selection(ta), "Head"), ToMode(Insert))
         [] k = "v" /\ ~c /\ mode = Normal -> Ret(start_selection(ta), ToMode(Visual))
         [] k = "V" /\ ~c /\ mode = Normal ->
                Ret(move_cursor(start_selection(move_cursor(ta, "Head")), "End"),
                    ToMode(Visual))
         [] (k = "Esc" \/ (k = "v" /\ ~c)) /\ mode = Visual ->
                Ret(cancel_selection(ta), ToMode(Normal))
         [] k \in {"y", "d", "c"} /\ ~c /\ mode = Normal ->
                Ret(start_selection(ta), ToMode(Operator(k)))
         [] k = "y" /\ ~c /\ mode = Visual ->
                Ret(copy(Inclusive(ta)), ToMode(Normal))
         [] k = "d" /\ ~c /\ mode = Visual ->
                Ret(cut(Inclusive(ta)), ToMode(Normal))
         [] k = "c" /\ ~c /\ mode = Visual ->
                Ret(cut(Inclusive(ta)), ToMode(Insert))
         [] OTHER -> Ret(ta, Pending(inp))

\* the arms of the motion table that fall through to the final step: the
\* TextArea after the motion, None when the key is no such arm; `to` is
\* where a scroll leaves the cursor
Motion(vim, inp, ta, to) ==
    LET k == inp.key
        c == inp.ctrl
        mode == vim.mode
    IN CASE k = "h" -> Some(move_cursor(ta, "Back"))
         [] k = "j" -> Some(move_cursor(ta, "Down"))
         [] k = "k" -> Some(move_cursor(ta, "Up"))
         [] k = "l" -> Some(move_cursor(ta, "Forward"))
         [] k = "w" -> Some(move_cursor(ta, "WordForward"))
         [] k = "e" /\ ~c ->
                Some(IF mode.name = "Operator"
                     THEN move_cursor(move_cursor(ta, "WordEnd"), "Forward")
                     ELSE move_cursor(ta, "WordEnd"))
         [] k = "b" /\ ~c -> Some(move_cursor(ta, "WordBack"))
         [] k = "^" -> Some(move_cursor(ta, "Head"))
         [] k = "$" -> Some(move_cursor(ta, "End"))
         [] k \in {"D", "C", "p", "x", "i", "a", "A", "o", "O", "I"} -> None
         [] k = "u" /\ ~c -> None
         [] k = "r" /\ c -> None
         [] IsScrollKey(inp) -> Some(scroll(ta, to))
         [] k \in {"v", "V"} /\ ~c /\ mode = Normal -> None
         [] (k = "Esc" \/ (k = "v" /\ ~c)) /\ mode = Visual -> None
         [] k = "g" /\ ~c /\ vim.pending = [key |-> "g", ctrl |-> FALSE] ->
                Some(move_cursor(ta, "Top"))
         [] k = "G" /\ ~c -> Some(move_cursor(ta, "Bottom"))
         [] ~c /\ mode = Operator(k) -> Some(OperatorLine(ta))
         [] OTHER -> None

\* Vim::transition
transition(vim, inp, ta, to) ==
    IF inp.key = "Null" THEN Ret(ta, Nop)
    ELSE IF vim.mode = Insert
         THEN IF inp.key = "Esc" \/ (inp.key = "c" /\ inp.ctrl)
              THEN Ret(ta, ToMode(Normal))
              ELSE Ret(textarea_input(ta, inp), ToMode(Insert))
         ELSE With(Motion(vim, inp, ta, to), LAMBDA m :
                  IF IsSome(m) THEN Finalize(vim.mode, m.val)
                  ELSE Command(vim, inp, ta))

----------------------------------------------------------------------------
(* Languages: the catalog and the picker's filter *)

LANGUAGES ==
    << [name |-> <<"E", "n", "g", "l", "i", "s", "h">>, code |-> <<"E", "N">>],
       [name |-> <<"S", "p", "a", "n", "i", "s", "h">>, code |-> <<"E", "S">>],
       [name |-> <<"F", "r", "e", "n", "c", "h">>, code |-> <<"F", "R">>],
       [name |-> <<"G", "e", "r", "m", "a", "n">>, code |-> <<"D", "E">>],
       [name |-> <<"I", "t", "a", "l", "i", "a", "n">>, code |-> <<"I", "T">>],
       [name |-> <<"P", "o", "r", "t", "u", "g", "u", "e", "s", "e">>, code |-> <<"P", "T">>],
       [name |-> <<"D", "u", "t", "c", "h">>, code |-> <<"N", "L">>],
       [name |-> <<"P", "o", "l", "i", "s", "h">>, code |-> <<"P", "L">>],
       [name |-> <<"R", "u", "s", "s", "i", "a", "n">>, code |-> <<"R", "U">>],
       [name |-> <<"J", "a", "p", "a", "n", "e", "s", "e">>, code |-> <<"J", "A">>],
       [name |-> <<"C", "h", "i", "n", "e", "s", "e">>, code |-> <<"Z", "H">>],
       [name |-> <<"K", "o", "r", "e", "a", "n">>, code |-> <<"K", "O">>],
       [name |-> <<"S", "w", "e", "d", "i", "s", "h">>, code |-> <<"S", "V">>] >>

\* the characters of names, codes and queries in byte order
Alphabet ==
    <<" ", "A", "B", "C", "D", "E", "F", "G", "H", "I", "J", "K", "L", "M", "N", "O", "P", "Q", "R", "S", "T", "U", "V", "W", "X", "Y", "Z", "a", "b", "c", "d", "e", "f", "g", "h", "i", "j", "k", "l", "m", "n", "o", "p", "q", "r", "s", "t", "u", "v", "w", "x", "y", "z">>

Ord(c) == CHOOSE i \in 1..Len(Alphabet) : Alphabet[i] = c

\* char::to_ascii_lowercase
to_ascii_lowercase_char(c) ==
    IF Ord(c) >= 2 /\ Ord(c) <= 27 THEN Alphabet[Ord(c) + 26] ELSE c

to_ascii_lowercase(str) == [i \in 1..Len(str) |-> to_ascii_lowercase_char(str[i])]

\* str::eq_ignore_ascii_case
eq_ignore_ascii_case(a, b) == to_ascii_lowercase(a) = to_ascii_lowercase(b)

\* str::cmp < 0: byte-wise lexical order
RECURSIVE StrLess(_, _)
StrLess(a, b) ==
    IF b = <<>> THEN FALSE
    ELSE IF a = <<>> THEN TRUE
    ELSE IF Head(a) # Head(b) THEN Ord(Head(a)) < Ord(Head(b))
    ELSE StrLess(Tail(a), Tail(b))

\* find_language_index: the catalog position (0-based) of a code
find_language_index(code) ==
    LET hits == {i \in 1..Len(LANGUAGES) : eq_ignore_ascii_case(LANGUAGES[i].code, code)}
    IN IF hits = {} THEN None ELSE Some(SetMin(hits) - 1)

\* a search that starts over at the head of the candidate for every needle
FindFrom_from_start(candidate, from, needle) ==
    LET hits == {i \in 1..Len(candidate) : candidate[i] = needle}
    IN IF hits = {} THEN None ELSE Some(SetMin(hits) - 1)

\* str::find(char) on candidate[from..]: the 0-based offset of the first hit
FindFrom(candidate, from, needle) ==
    LET hits == {i \in (from + 1)..Len(candidate) : candidate[i] = needle}
    IN IF hits = {} THEN None ELSE Some(SetMin(hits) - 1 - from)

\* the loop of fuzzy_score over the remaining needles
RECURSIVE FuzzyLoop(_, _, _, _)
FuzzyLoop(needles, candidate, score, last_index) ==
    IF needles = <<>> THEN Some(score)
    ELSE With(FindFrom(candidate, last_index, Head(needles)), LAMBDA found :
             IF IsSome(found)
             THEN FuzzyLoop(Tail(needles), candidate, score + found.val,
                            last_index + found.val + 1)
             ELSE None)

fuzzy_score(query, candidate) ==
    FuzzyLoop(to_ascii_lowercase(query), candidate, 0, 0)

\* the candidate string of a catalog entry (1-based position)
Candidate(i) ==
    to_ascii_lowercase(LANGUAGES[i].name) \o <<" ">> \o to_ascii_lowercase(LANGUAGES[i].code)

\* a comparison that looks at the names alone
MatchLess_by_name(i, j, query) == StrLess(LANGUAGES[i].name, LANGUAGES[j].name)

\* the comparison of matches.sort_by: score, then name
MatchLess(i, j, query) ==
    With(fuzzy_score(query, Candidate(i)).val, LAMBDA si :
    With(fuzzy_score(query, Candidate(j)).val, LAMBDA sj :
        si < sj \/ (si = sj /\ StrLess(LANGUAGES[i].name, LANGUAGES[j].name))))

\* a stable sort of the matches, which the catalog order already lists
RECURSIVE SortMatches(_, _)
SortMatches(S, query) ==
    IF S = {} THEN <<>>
    ELSE With(CHOOSE i \in S :
                  \A j \in S \ {i} :
                      MatchLess(i, j, query) \/ (~MatchLess(j, i, query) /\ i < j),
              LAMBDA first : <<first - 1>> \o SortMatches(S \ {first}, query))

\* a filter that scores and sorts the empty query like any other
filtered_language_indices_always_sorts(query) ==
    SortMatches({i \in 1..Len(LANGUAGES) : IsSome(fuzzy_score(query, Candidate(i)))},
                query)

\* filtered_language_indices: 0-based catalog indices
filtered_language_indices(query) ==
    IF TrimIsEmpty(query) THEN [i \in 1..Len(LANGUAGES) |-> i - 1]
    ELSE SortMatches({i \in 1..Len(LANGUAGES) : IsSome(fuzzy_score(query, Candidate(i)))},
                     query)

\* LANGUAGES.get(index).unwrap_or(&LANGUAGES[0])
LanguageAt(index) ==
    IF index < Len(LANGUAGES) THEN LANGUAGES[index + 1] ELSE LANGUAGES[1]

----------------------------------------------------------------------------
(* App: the session *)

Sides == {"Left", "Right"}
\* a side that has no other side
Other_same(side) == side

Other(side) == IF side = "Left" THEN "Right" ELSE "Left"

\* textarea_text
textarea_text(ta) == Join(ta.lines)

\* set_textarea_text
set_textarea_text(text) == NewTextArea(StrLines(text))

\* the session as one value
App ==
    [active |-> active, input |-> input, output |-> output,
     left_vim |-> left_vim, right_vim |-> right_vim,
     left_language |-> left_language, right_language |-> right_language,
     pending_translation |-> pending_translation, last_edit |-> last_edit,
     error |-> error, picker |-> picker]

\* App::new
NewApp ==
    [active |-> "Left",
     input |-> DefaultTextArea,
     output |-> DefaultTextArea,
     left_vim |-> NewVim(Normal),
     right_vim |-> NewVim(Normal),
     left_language |->
         LET f == find_language_index(<<"E", "N">>) IN IF IsSome(f) THEN f.val ELSE 0,
     right_language |->
         LET f == find_language_index(<<"E", "S">>) IN IF IsSome(f) THEN f.val ELSE 1,
     pending_translation |-> FALSE,
     last_edit |-> None,
     error |-> None,
     picker |-> None]

Pane(app, side) == IF side = "Left" THEN app.input ELSE app.output
VimOf(app, side) == IF side = "Left" THEN app.left_vim ELSE app.right_vim

\* a write that always goes to the left pane
SetPane_left(app, side, ta) == [app EXCEPT !.input = ta]

SetPane(app, side, ta) ==
    IF side = "Left" THEN [app EXCEPT !.input = ta] ELSE [app EXCEPT !.output = ta]
LangCode(app, side) ==
    LanguageAt(IF side = "Left" THEN app.left_language ELSE app.right_language).code

\* a schedule_translation that sets no time of the last edit
schedule_translation_no_timestamp(app) ==
    [app EXCEPT !.pending_translation = TRUE, !.error = None]

\* a schedule_translation that leaves the error of an earlier pass shown
schedule_translation_keeps_error(app) ==
    [app EXCEPT !.pending_translation = TRUE, !.last_edit = Some(0)]

\* a schedule_translation that keeps a timestamp already there
schedule_translation_keeps_timestamp(app) ==
    [app EXCEPT !.pending_translation = TRUE,
                !.last_edit = IF IsSome(app.last_edit) THEN app.last_edit ELSE Some(0),
                !.error = None]

\* schedule_translation
schedule_translation(app) ==
    [app EXCEPT !.pending_translation = TRUE,
                !.last_edit = Some(0),
                !.error = None]

\* an update that sets the Mode and keeps the pending input
update_vim_state_keeps_pending(app, side, tr) ==
    LET vim == VimOf(app, side)
        v == CASE tr.kind = "Nop" -> vim
               [] tr.kind = "Pending" -> [vim EXCEPT !.pending = tr.input]
               [] tr.kind = "Mode" -> [vim EXCEPT !.mode = tr.mode]
    IN IF side = "Left" THEN [app EXCEPT !.left_vim = v] ELSE [app EXCEPT !.right_vim = v]

\* App::update_vim_state
update_vim_state(app, side, tr) ==
    LET vim == VimOf(app, side)
        v == CASE tr.kind = "Nop" -> vim
               [] tr.kind = "Pending" -> [vim EXCEPT !.pending = tr.input]
               [] tr.kind = "Mode" -> [mode |-> tr.mode, pending |-> NullInput]
    IN IF side = "Left" THEN [app EXCEPT !.left_vim = v] ELSE [app EXCEPT !.right_vim = v]

\* App::open_picker
open_picker(app, side) ==
    [app EXCEPT !.picker = Some([side |-> side, query |-> <<>>, selected |-> 0])]

Act(app, action) == [app |-> app, action |-> action]

\* char::is_control, on the characters a key can carry
is_control(c) == c \in {NL, CR, "\t"}

\* a lookup that answers with a position past the end of the catalog
Selection_past_catalog(indices, selected) ==
    IF selected < Len(indices) THEN Some(selected + Len(LANGUAGES)) ELSE None

\* a lookup that falls back to the first entry of the catalog
Selection_or_first(indices, selected) ==
    IF selected < Len(indices) THEN Some(indices[selected + 1]) ELSE Some(0)

\* indices.get(picker.selected)
Selection(indices, selected) ==
    IF selected < Len(indices) THEN Some(indices[selected + 1]) ELSE None

\* a commit that writes both language slots
SetLanguage_both(app, side, language_index) ==
    [app EXCEPT !.left_language = language_index, !.right_language = language_index]

\* the Enter arm's match on picker.side
SetLanguage(app, side, language_index) ==
    IF side = "Left"
    THEN [app EXCEPT !.left_language = language_index]
    ELSE [app EXCEPT !.right_language = language_index]

\* a close that also arms a translation
ClosePicker_rearms(app) ==
    [schedule_translation(app) EXCEPT !.picker = None]

\* self.picker = None
ClosePicker(app) == [app EXCEPT !.picker = None]

\* a Down arm without the bound check
MoveDown_unbounded(selected, indices) == selected + 1

\* the Down arm: one step, not past the last index
MoveDown(selected, indices) ==
    IF indices # <<>> /\ selected + 1 < Len(indices) THEN selected + 1 ELSE selected

\* a Char arm that appends and leaves the selection where it is
TypeChar_keeps_selection(pk, c) ==
    IF ~is_control(c) /\ Len(pk.query) < MaxQueryLen
    THEN [pk EXCEPT !.query = Append(pk.query, c)]
    ELSE pk

\* the Char arm: a character is appended to a query of fewer than 32 bytes,
\* and the selection goes back to the top
TypeChar(pk, c) ==
    IF ~is_control(c) /\ Len(pk.query) < MaxQueryLen
    THEN [pk EXCEPT !.query = Append(pk.query, c), !.selected = 0]
    ELSE pk

\* the arms of App::handle_picker_key, given the filtered indices
PickerArms(app, key, pk, indices) ==
    CASE key.code = "c" /\ key.ctrl -> Act(app, "Quit")
      [] key.code = "Esc" -> Act(ClosePicker(app), "None")
      [] key.code = "Enter" ->
             IF IsSome(Selection(indices, pk.selected))
             THEN Act(ClosePicker(schedule_translation(
                          SetLanguage(app, pk.side, Selection(indices, pk.selected).val))),
                      "None")
             ELSE Act(ClosePicker(app), "None")
      [] key.code = "Up" ->
             Act(IF pk.selected > 0
                 THEN [app EXCEPT !.picker.val.selected = pk.selected - 1]
                 ELSE app, "None")
      [] key.code = "Down" ->
             Act([app EXCEPT !.picker.val.selected = MoveDown(pk.selected, indices)], "None")
      [] key.code = "Backspace" ->
             Act([app EXCEPT !.picker.val.query =
                                 IF pk.query = <<>> THEN <<>>
                                 ELSE Take(pk.query, Len(pk.query) - 1),
                             !.picker.val.selected = 0], "None")
      [] IsCharCode(key.code) ->
             Act([app EXCEPT !.picker.val = TypeChar(pk, key.code)], "None")
      [] OTHER -> Act(app, "None")

\* App::handle_picker_key; the query is filtered in the Enter and Down arms
handle_picker_key(app, key) ==
    IF key.code \in {"Enter", "Down"}
    THEN With(filtered_language_indices(app.picker.val.query), LAMBDA indices :
             PickerArms(app, key, app.picker.val, indices))
    ELSE PickerArms(app, key, app.picker.val, <<>>)

\* an editor arm that never schedules a translation
handle_editor_key_no_schedule(app, key, to) ==
    With(transition(VimOf(app, app.active), textarea_input_from_key(key),
                    Pane(app, app.active), to), LAMBDA r :
        Act(update_vim_state(SetPane(app, app.active, r.ta), app.active, r.tr), "None"))

\* an editor arm that schedules a translation on every key
handle_editor_key_always_schedules(app, key, to) ==
    With(transition(VimOf(app, app.active), textarea_input_from_key(key),
                    Pane(app, app.active), to), LAMBDA r :
        Act(schedule_translation(
                update_vim_state(SetPane(app, app.active, r.ta), app.active, r.tr)),
            "None"))

\* the last arm of App::handle_key: the key goes to the active pane's Vim,
\* and a change of the pane's text schedules a translation
handle_editor_key(app, key, to) ==
    With(transition(VimOf(app, app.active), textarea_input_from_key(key),
                    Pane(app, app.active), to), LAMBDA r :
    With(update_vim_state(SetPane(app, app.active, r.ta), app.active, r.tr), LAMBDA a :
        Act(IF textarea_text(Pane(app, app.active)) # textarea_text(r.ta)
            THEN schedule_translation(a)
            ELSE a, "None")))

\* the guards of maybe_translate: a pass goes on only when a translation is
\* pending and the quiet period is over
PassDue(app) ==
    /\ app.pending_translation
    /\ IsSome(app.last_edit)
    /\ ~(app.last_edit.val < TRANSLATION_DEBOUNCE)

\* a pass that always reads the left pane
PassSource_left(app) == "Left"

\* the pane maybe_translate reads: the active one
PassSource(app) == app.active

\* a blank test without the trim
IsBlank_no_trim(text) == text = <<>>

\* source_text.trim().is_empty()
IsBlank(text) == TrimIsEmpty(text)

\* a dispatch without the Ctrl+R arm: the key reaches the editor's redo
HandlePress_redo(app, key, to) ==
    IF IsSome(app.picker) THEN handle_picker_key(app, key)
    ELSE CASE key.code = "c" /\ key.ctrl -> Act(app, "Quit")
           [] key.code = "h" /\ key.ctrl -> Act(open_picker(app, "Left"), "None")
           [] key.code = "l" /\ key.ctrl -> Act(open_picker(app, "Right"), "None")
           [] key.code = "n" /\ key.ctrl -> Act(app, "NativeizeBoth")
           [] key.code = "Tab" -> Act([app EXCEPT !.active = Other(app.active)], "None")
           [] key.code = "Backspace" /\ key.ctrl -> Act(open_picker(app, "Left"), "None")
           [] OTHER -> handle_editor_key(app, key, to)

\* App::handle_key past the check of the event kind
HandlePress(app, key, to) ==
    IF IsSome(app.picker) THEN handle_picker_key(app, key)
    ELSE CASE key.code = "c" /\ key.ctrl -> Act(app, "Quit")
           [] key.code = "h" /\ key.ctrl -> Act(open_picker(app, "Left"), "None")
           [] key.code = "l" /\ key.ctrl -> Act(open_picker(app, "Right"), "None")
           [] key.code = "n" /\ key.ctrl -> Act(app, "NativeizeBoth")
           [] key.code = "r" /\ key.ctrl ->
                  Act(schedule_translation(SetPane(app, app.active, DefaultTextArea)), "None")
           [] key.code = "Tab" -> Act([app EXCEPT !.active = Other(app.active)], "None")
           [] key.code = "Backspace" /\ key.ctrl -> Act(open_picker(app, "Left"), "None")
           [] OTHER -> handle_editor_key(app, key, to)

\* a handle_key that tries Tab and Ctrl+N before it looks for the picker
handle_key_session_first(app, key, to) ==
    IF key.kind # "Press" THEN Act(app, "None")
    ELSE IF key.code = "Tab" THEN Act([app EXCEPT !.active = Other(app.active)], "None")
    ELSE IF key.code = "n" /\ key.ctrl THEN Act(app, "NativeizeBoth")
    ELSE HandlePress(app, key, to)

\* a handle_key that acts on releases and repeats as well
handle_key_any_kind(app, key, to) == HandlePress(app, key, to)

\* App::handle_key
handle_key(app, key, to) ==
    IF key.kind # "Press" THEN Act(app, "None") ELSE HandlePress(app, key, to)

\* one call of translate_via_api: the arguments it was given and its result
Call(text, source_lang, target_lang, res) ==
    [text |-> text, source_lang |-> source_lang, target_lang |-> target_lang, res |-> res]

Ok(text) == [tag |-> "Ok", val |-> text]
Err(message) == [tag |-> "Err", val |-> message]

Out(app, calls) == [app |-> app, calls |-> calls]

\* a pass that stays pending when the Translator fails
TranslatePass_retries(app, source, target, source_text, res) ==
    IF IsBlank(source_text)
    THEN Out([SetPane(app, target, set_textarea_text(<<>>))
                  EXCEPT !.pending_translation = FALSE], <<>>)
    ELSE Out(IF res.tag = "Ok"
             THEN [SetPane(app, target, set_textarea_text(res.val))
                       EXCEPT !.error = None, !.pending_translation = FALSE]
             ELSE [app EXCEPT !.error = Some(res.val)],
             << Call(source_text, LangCode(app, source), LangCode(app, target), res) >>)

\* the body of maybe_translate past its guards
TranslatePass(app, source, target, source_text, res) ==
    IF IsBlank(source_text)
    THEN Out([SetPane(app, target, set_textarea_text(<<>>))
                  EXCEPT !.pending_translation = FALSE], <<>>)
    ELSE Out([(IF res.tag = "Ok"
               THEN [SetPane(app, target, set_textarea_text(res.val))
                         EXCEPT !.error = None]
               ELSE [app EXCEPT !.error = Some(res.val)])
                  EXCEPT !.pending_translation = FALSE],
             << Call(source_text, LangCode(app, source), LangCode(app, target), res) >>)

\* maybe_translate; res is what the Translator answers if it is called
maybe_translate(app, res) ==
    IF ~PassDue(app) THEN Out(app, <<>>)
    ELSE With(PassSource(app), LAMBDA source :
         With(textarea_text(Pane(app, source)), LAMBDA source_text :
             TranslatePass(app, source, Other(source), source_text, res)))

\* a Nativize both that clears the time of the last edit alone
NativeizeTexts_keeps_pending(app, left_source, right_source, res_lr, res_rl) ==
    IF IsBlank(left_source) /\ IsBlank(right_source) THEN Out(app, <<>>)
    ELSE Out([app EXCEPT !.last_edit = None], <<>>)

\* the Translator calls of nativeize_both: a blank source is skipped
NativeizeCalls(app, left_source, right_source, res_lr, res_rl) ==
    (IF ~IsBlank(left_source)
     THEN << Call(left_source, LangCode(app, "Left"), LangCode(app, "Right"), res_lr) >>
     ELSE <<>>)
    \o (IF ~IsBlank(right_source)
        THEN << Call(right_source, LangCode(app, "Right"), LangCode(app, "Left"), res_rl) >>
        ELSE <<>>)

\* a Nativize both that gives up the right-to-left direction when the
\* left-to-right call has failed
NativeizeWrites_stops_at_failure(app, left_source, right_source, res_lr, res_rl) ==
    IF ~IsBlank(left_source) /\ res_lr.tag = "Err"
    THEN Out([app EXCEPT !.input = set_textarea_text(left_source),
                         !.output = set_textarea_text(right_source),
                         !.error = Some(res_lr.val),
                         !.pending_translation = FALSE,
                         !.last_edit = None],
             << Call(left_source, LangCode(app, "Left"), LangCode(app, "Right"), res_lr) >>)
    ELSE Out([app EXCEPT
                 !.input = set_textarea_text(
                     IF ~IsBlank(right_source) /\ res_rl.tag = "Ok"
                     THEN res_rl.val ELSE left_source),
                 !.output = set_textarea_text(
                     IF ~IsBlank(left_source) /\ res_lr.tag = "Ok"
                     THEN res_lr.val ELSE right_source),
                 !.error =
                     IF ~IsBlank(right_source) /\ res_rl.tag = "Err" THEN Some(res_rl.val)
                     ELSE None,
                 !.pending_translation = FALSE,
                 !.last_edit = None],
             NativeizeCalls(app, left_source, right_source, res_lr, res_rl))

\* nativeize_both past its early return: the two calls and the writes
NativeizeWrites(app, left_source, right_source, res_lr, res_rl) ==
    Out([app EXCEPT
            !.input = set_textarea_text(
                IF ~IsBlank(right_source) /\ res_rl.tag = "Ok"
                THEN res_rl.val ELSE left_source),
            !.output = set_textarea_text(
                IF ~IsBlank(left_source) /\ res_lr.tag = "Ok"
                THEN res_lr.val ELSE right_source),
            !.error =
                IF ~IsBlank(left_source) /\ res_lr.tag = "Err" THEN Some(res_lr.val)
                ELSE IF ~IsBlank(right_source) /\ res_rl.tag = "Err"
                     THEN Some(res_rl.val)
                ELSE None,
            !.pending_translation = FALSE,
            !.last_edit = None],
        NativeizeCalls(app, left_source, right_source, res_lr, res_rl))

\* a Nativize both without the early return on two blank panes
NativeizeTexts_no_early_return(app, left_source, right_source, res_lr, res_rl) ==
    NativeizeWrites(app, left_source, right_source, res_lr, res_rl)

\* a Nativize both that clears the pending flag and the time of the last
\* edit on two blank panes as well
NativeizeTexts_always_clears(app, left_source, right_source, res_lr, res_rl) ==
    IF IsBlank(left_source) /\ IsBlank(right_source)
    THEN Out([app EXCEPT !.pending_translation = FALSE, !.last_edit = None], <<>>)
    ELSE NativeizeWrites(app, left_source, right_source, res_lr, res_rl)

\* the body of nativeize_both, given the text of the two panes
NativeizeTexts(app, left_source, right_source, res_lr, res_rl) ==
    IF IsBlank(left_source) /\ IsBlank(right_source) THEN Out(app, <<>>)
    ELSE NativeizeWrites(app, left_source, right_source, res_lr, res_rl)

\* nativeize_both; res_lr and res_rl are what the Translator answers to the
\* left-to-right and the right-to-left call
nativeize_both(app, res_lr, res_rl) ==
    With(textarea_text(app.input), LAMBDA left_source :
    With(textarea_text(app.output), LAMBDA right_source :
        NativeizeTexts(app, left_source, right_source, res_lr, res_rl)))

----------------------------------------------------------------------------
(* The environment: the keys it delivers, the Translator's answers, time *)

PlainChars ==
    {"h", "j", "k", "l", "w", "e", "b", "^", "$", "D", "C", "p", "u", "x", "i",
     "a", "A", "o", "O", "I", "v", "V", "g", "G", "y", "d", "c", "r", " "}

Keys ==
    {Press(c) : c \in PlainChars}
    \cup {Press(c) : c \in {"Esc", "Enter", "Tab", "Backspace", "Up", "Down", "Other"}}
    \cup {Ctrl(c) : c \in {"c", "h", "l", "n", "r", "e", "u", "Backspace"}}
    \cup {KeyEvent("Release", "a", FALSE)}

\* the characters typed as text in Insert mode and as the picker's query
TypedChars == {"a", " "}
QueryChars == {"g", "e", "r", "x", " "}

Translations == { <<"b">>, <<"b", NL>>, <<"a", NL, "b">> }
Errors == {"E1", "E2"}
Results == {Ok(t) : t \in Translations} \cup {Err(m) : m \in Errors}

\* how long after the previous step a key arrives within one poll
KeyDelays == {0}

\* the keys that arrive in a state. Of the characters, Insert mode gets
\* TypedChars and the picker QueryChars; the picker also gets Ctrl+C, and at
\* an empty query every other control letter, which it types like the
\* plain letter
Delivered(app, key) ==
    IF key.kind # "Press" THEN TRUE
    ELSE IF IsSome(app.picker)
         THEN IsCharCode(key.code) /\ ~(key.code = "c" /\ key.ctrl)
                  => \/ key.code \in QueryChars
                     \/ key.ctrl /\ app.picker.val.query = <<>>
         ELSE (VimOf(app, app.active).mode = Insert /\ IsCharCode(key.code) /\ ~key.ctrl)
                  => key.code \in TypedChars

InBounds(ta) ==
    /\ Len(ta.lines) <= MaxLines
    /\ \A i \in 1..Len(ta.lines) : Len(ta.lines[i]) <= MaxCols

\* where a scroll may leave the cursor; one dummy choice for any other key
ScrollTargets(app, key) ==
    IF key.kind = "Press" /\ ~IsSome(app.picker) /\ IsScrollKey(textarea_input_from_key(key))
    THEN Positions(Pane(app, app.active))
    ELSE {<<0, 0>>}

\* an Instant grows older
Elapse(instant, dt) ==
    IF IsSome(instant) THEN Some(Min(instant.val + dt, MaxAge)) ELSE instant

Age(app, dt) == [app EXCEPT !.last_edit = Elapse(app.last_edit, dt)]

\* the variables take the fields of a session value
Becomes(app) ==
    /\ active' = app.active
    /\ input' = app.input
    /\ output' = app.output
    /\ left_vim' = app.left_vim
    /\ right_vim' = app.right_vim
    /\ left_language' = app.left_language
    /\ right_language' = app.right_language
    /\ pending_translation' = app.pending_translation
    /\ last_edit' = app.last_edit
    /\ error' = app.error
    /\ picker' = app.picker

\* an arming event, read off the key and what it did: Ctrl+R, a committed
\* picker choice, or a change of the active pane's text
Arming(app, key, after) ==
    /\ key.kind = "Press"
    /\ IF IsSome(app.picker)
       THEN /\ key.code = "Enter"
            /\ app.picker.val.selected < Len(filtered_language_indices(app.picker.val.query))
       ELSE \/ key.code = "r" /\ key.ctrl
            \/ textarea_text(Pane(app, app.active)) # textarea_text(Pane(after, app.active))

\* what a step did: the key it handled and the mode the active pane was in,
\* the Translator calls it made, whether it armed the translation cycle,
\* whether it was a debounce pass that went past its guards
Event(op, key, mode, calls, armed, pass) ==
    [op |-> op, key |-> key, mode |-> mode, calls |-> calls, armed |-> armed,
     pass |-> pass]

NoKey == KeyEvent("None", "Other", FALSE)

\* the key that entered Visual, for a pane whose mode went from `before` to
\* `after` on `key`; `was` is what was recorded so far
VisualBy(before, after, key, was) ==
    IF after # Visual THEN ""
    ELSE IF before = Normal THEN key.code
    ELSE was

\* what of the session is remembered when the picker opens
Snapshot(app) ==
    [left_language |-> app.left_language,
     right_language |-> app.right_language,
     input |-> app.input,
     output |-> app.output,
     pending_translation |-> app.pending_translation,
     timestamp_set |-> IsSome(app.last_edit)]

\* the snapshot kept while the picker is open
AtOpen(app, after, was) ==
    IF ~IsSome(after.picker) THEN None
    ELSE IF ~IsSome(app.picker) THEN Some(Snapshot(app))
    ELSE was

----------------------------------------------------------------------------
(* run_app: poll, handle the key, nativeize on request, then the debounce  *)
(* pass                                                                    *)

\* event::poll returns with a key and App::handle_key runs
PollKey(key, dt, to) ==
    /\ pc = "poll"
    /\ keys_left > 0
    /\ Delivered(App, key)
    /\ \E app \in {Age(App, dt)} :
       \E r \in {handle_key(app, key, to)} :
       \E armed \in {Arming(app, key, r.app)} :
          /\ InBounds(r.app.input) /\ InBounds(r.app.output)
          /\ Becomes(r.app)
          /\ pc' = CASE r.action = "Quit" -> "quit"
                     [] r.action = "NativeizeBoth" -> "nativeize"
                     [] OTHER -> "translate"
          /\ since_arm' = IF armed THEN Some(0) ELSE Elapse(since_arm, dt)
          /\ fired' = IF armed THEN 0 ELSE fired
          /\ edited' = IF armed
                       THEN (IF IsSome(app.picker) THEN None ELSE Some(app.active))
                       ELSE edited
          /\ ev' = Event("key", key, VimOf(app, app.active).mode, <<>>, armed, FALSE)
          /\ visual_by' = [visual_by EXCEPT ![app.active] =
                               VisualBy(VimOf(app, app.active).mode,
                                        VimOf(r.app, app.active).mode, key, @)]
          /\ at_open' = AtOpen(app, r.app, at_open)
    /\ keys_left' = keys_left - 1

\* event::poll times out
PollTimeout ==
    /\ pc = "poll"
    /\ Becomes(Age(App, poll_rate))
    /\ pc' = "translate"
    /\ since_arm' = Elapse(since_arm, poll_rate)
    /\ ev' = Event("timeout", NoKey, Normal, <<>>, FALSE, FALSE)
    /\ UNCHANGED <<keys_left, fired, edited, visual_by, at_open>>

\* AppAction::NativeizeBoth
Nativeize(res_lr, res_rl) ==
    /\ pc = "nativeize"
    /\ \E r \in {nativeize_both(App, res_lr, res_rl)} :
          /\ Becomes(r.app)
          /\ ev' = Event("nativeize", NoKey, Normal, r.calls, FALSE, FALSE)
    /\ pc' = "translate"
    /\ UNCHANGED <<keys_left, since_arm, fired, edited, visual_by, at_open>>

\* the debounce pass that ends every turn of the loop
MaybeTranslate(res) ==
    /\ pc = "translate"
    /\ \E r \in {maybe_translate(App, res)} :
          /\ Becomes(r.app)
          /\ ev' = Event("translate", NoKey, Normal, r.calls, FALSE,
                        /\ pending_translation
                        /\ IsSome(last_edit)
                        /\ last_edit.val >= TRANSLATION_DEBOUNCE)
          /\ fired' = Min(fired + Len(r.calls), 2)
    /\ pc' = "poll"
    /\ UNCHANGED <<keys_left, since_arm, edited, visual_by, at_open>>

\* the answers the Translator may give to a call on `text`; one stand-in
\* when the text is blank and no call is made
Answers(text) == IF IsBlank(text) THEN {Ok(<<>>)} ELSE Results

\* the answers that matter to a debounce pass: those to its call, if it
\* makes one
PassAnswers(app) ==
    IF PassDue(app) THEN Answers(textarea_text(Pane(app, PassSource(app))))
    ELSE {Ok(<<>>)}

Next ==
    \/ \E key \in Keys, dt \in KeyDelays :
           \E to \in ScrollTargets(App, key) : PollKey(key, dt, to)
    \/ PollTimeout
    \/ \E res_lr \in Answers(textarea_text(input)) :
           \E res_rl \in Answers(textarea_text(output)) : Nativeize(res_lr, res_rl)
    \/ \E res \in PassAnswers(App) : MaybeTranslate(res)

Ghosts0 ==
    /\ pc = "poll"
    /\ since_arm = None
    /\ fired = 0
    /\ edited = None
    /\ ev = Event("init", NoKey, Normal, <<>>, FALSE, FALSE)
    /\ visual_by = [side \in Sides |-> ""]
    /\ at_open = None

\* the session as App::new leaves it
Init ==
    /\ active = NewApp.active
    /\ input = NewApp.input
    /\ output = NewApp.output
    /\ left_vim = NewApp.left_vim
    /\ right_vim = NewApp.right_vim
    /\ left_language = NewApp.left_language
    /\ right_language = NewApp.right_language
    /\ pending_translation = NewApp.pending_translation
    /\ last_edit = NewApp.last_edit
    /\ error = NewApp.error
    /\ picker = NewApp.picker
    /\ keys_left = MaxKeys
    /\ Ghosts0

Spec == Init /\ [][Next]_vars

\* Sessions in the middle of editing.  Text was typed into the left pane and
\* a debounce pass translated it; after that either Nativize both rewrote
\* the two panes from the Translator's answers (EditNativeized), or the
\* typed text is still there with its history (EditTyped).  The cursor of
\* the left pane has been moved somewhere in the text since.
EditNativeized ==
    { set_textarea_text(<<"a", "b", NL, "b">>), set_textarea_text(<<"a">>) }

RECURSIVE TypeKeys(_, _)
TypeKeys(ta, codes) ==
    IF codes = <<>> THEN ta
    ELSE TypeKeys(textarea_input(ta, [key |-> Head(codes), ctrl |-> FALSE]), Tail(codes))

EditTyped == { TypeKeys(DefaultTextArea, <<"a", "Enter">>) }

EditInit ==
    /\ active = "Left"
    /\ \/ /\ \E ta \in EditNativeized :
             \E p \in Positions(ta) : input = [ta EXCEPT !.cursor = p]
          /\ last_edit = None
       \/ /\ \E ta \in EditTyped :
             \E p \in Positions(ta) : input = [ta EXCEPT !.cursor = p]
          /\ last_edit = Some(MaxAge)
    /\ output = set_textarea_text(<<"b">>)
    /\ left_vim = NewVim(Normal)
    /\ right_vim = NewVim(Normal)
    /\ left_language = NewApp.left_language
    /\ right_language = NewApp.right_language
    /\ pending_translation = FALSE
    /\ error = None
    /\ picker = None
    /\ keys_left = MaxEditKeys
    /\ pc = "poll"
    /\ since_arm = Some(MaxAge)
    /\ fired = 1
    /\ edited = Some("Left")
    /\ ev = Event("init", NoKey, Normal, <<>>, FALSE, FALSE)
    /\ visual_by = [side \in Sides |-> ""]
    /\ at_open = None

EditSpec == EditInit /\ [][Next]_vars

\* the variables hold the fields of a session value
Holds(app) ==
    /\ active = app.active
    /\ input = app.input
    /\ output = app.output
    /\ left_vim = app.left_vim
    /\ right_vim = app.right_vim
    /\ left_language = app.left_language
    /\ right_language = app.right_language
    /\ pending_translation = app.pending_translation
    /\ last_edit = app.last_edit
    /\ error = app.error
    /\ picker = app.picker

\* the session before the picker is opened: as App::new leaves it, or right
\* after Ctrl+R on it, which schedules a translation
BeforePicker(armed) ==
    IF armed
    THEN schedule_translation(SetPane(NewApp, NewApp.active, DefaultTextArea))
    ELSE NewApp

\* what has been typed into the picker so far
PickerTyped == { <<>>, <<"g", "e">>, [i \in 1..MaxQueryLen |-> " "] }

\* Sessions in which Ctrl+H or Ctrl+L has opened the picker and the start of
\* a query may have been typed
PickerInit ==
    /\ \E armed \in BOOLEAN, side \in Sides, query \in PickerTyped :
          /\ Holds([open_picker(BeforePicker(armed), side) EXCEPT !.picker.val.query = query])
          /\ since_arm = IF armed THEN Some(0) ELSE None
          /\ edited = IF armed THEN Some(NewApp.active) ELSE None
          /\ at_open = Some(Snapshot(BeforePicker(armed)))
    /\ keys_left = MaxPickerKeys
    /\ pc = "poll"
    /\ fired = 0
    /\ ev = Event("init", NoKey, Normal, <<>>, FALSE, FALSE)
    /\ visual_by = [side \in Sides |-> ""]

PickerSpec == PickerInit /\ [][Next]_vars

----------------------------------------------------------------------------
(* Properties *)

\* the fields of the session
session ==
    <<active, input, output, left_vim, right_vim, left_language, right_language,
      pending_translation, last_edit, error, picker>>

\* the step is the debounce pass that ends a turn of the loop
TranslateStep == pc = "translate" /\ pc' = "poll"

\* the step is a key going through App::handle_key
KeyStep == pc = "poll" /\ ev'.op = "key"

\* C1: a debounce pass calls the Translator or writes a buffer only when a
\* translation is pending and at least 350 ms have passed since the latest
\* arming, and a pass less than 350 ms after the latest arming changes
\* nothing of the session.
C1_QuietPeriod ==
    [][TranslateStep =>
          /\ (ev'.calls # <<>> \/ input' # input \/ output' # output)
                 => /\ pending_translation
                    /\ IsSome(since_arm)
                    /\ since_arm.val >= TRANSLATION_DEBOUNCE
          /\ (IsSome(since_arm) /\ since_arm.val < TRANSLATION_DEBOUNCE)
                 => /\ UNCHANGED session
                    /\ ev'.calls = <<>>]_vars

\* a pass 300 ms after the latest arming has just left the pending
\* translation alone
C1_Witness ==
    /\ ev.op = "translate"
    /\ pending_translation
    /\ since_arm = Some(300)
    /\ ev.calls = <<>>

\* C2: the debounce passes that follow one arming call the Translator at
\* most once; a pass that went past its guards leaves nothing pending, a
\* pass with nothing pending does nothing, and only an arming key makes a
\* translation pending again.
C2_AtMostOnce ==
    [][/\ fired' <= 1
       /\ TranslateStep =>
              /\ ev'.pass => ~pending_translation'
              /\ ~pending_translation => UNCHANGED session /\ ev'.calls = <<>>
       /\ (~pending_translation /\ pending_translation') => ev'.armed]_vars

\* a pass after a failed translation has just done nothing
C2_Witness ==
    /\ ev.op = "translate"
    /\ ~ev.pass
    /\ ev.calls = <<>>
    /\ fired = 1
    /\ error # None
    /\ ~pending_translation

\* C3: the call of a debounce pass carries the text of the pane active at
\* that moment and the codes (language of the active pane, language of the
\* other pane); the active pane is left alone and a successful result is
\* written to the other pane.
C3_ActiveIsSource ==
    [][(TranslateStep /\ ev'.calls # <<>>) =>
          /\ Len(ev'.calls) = 1
          /\ ev'.calls[1].text = textarea_text(Pane(App, active))
          /\ ev'.calls[1].source_lang = LangCode(App, active)
          /\ ev'.calls[1].target_lang = LangCode(App, Other(active))
          /\ active' = active
          /\ IF active = "Left" THEN input' = input ELSE output' = output
          /\ ev'.calls[1].res.tag = "Ok" =>
                 IF active = "Left"
                 THEN output' = set_textarea_text(ev'.calls[1].res.val)
                 ELSE input' = set_textarea_text(ev'.calls[1].res.val)]_vars

\* the left pane was edited, Tab made the right pane active, and the pass
\* has translated the right pane's text from Spanish to English into the
\* left pane
C3_Witness ==
    /\ ev.op = "translate"
    /\ Len(ev.calls) = 1
    /\ edited = Some("Left")
    /\ active = "Right"
    /\ ev.calls[1].text = textarea_text(output)
    /\ ev.calls[1].source_lang = <<"E", "S">>
    /\ ev.calls[1].target_lang = <<"E", "N">>
    /\ ev.calls[1].res = Ok(<<"a", NL, "b">>)
    /\ input.lines = << <<"a">>, <<"b">> >>

\* C4: a debounce pass that goes past its guards with an empty or
\* whitespace-only source empties the target pane, leaves nothing pending
\* and does not call the Translator.
C4_BlankSource ==
    [][(/\ TranslateStep
        /\ pending_translation
        /\ IsSome(last_edit)
        /\ last_edit.val >= TRANSLATION_DEBOUNCE
        /\ \A i \in 1..Len(textarea_text(Pane(App, active))) :
               IsWhitespace(textarea_text(Pane(App, active))[i]))
          => /\ (IF active = "Left" THEN output' ELSE input').lines = << <<>> >>
             /\ ~pending_translation'
             /\ ev'.calls = <<>>]_vars

\* a pass has just found one blank in the left pane and emptied the right
\* pane, which held text
C4_Witness ==
    /\ ev.op = "translate"
    /\ ev.pass
    /\ ev.calls = <<>>
    /\ active = "Left"
    /\ textarea_text(input) = <<" ">>
    /\ textarea_text(output) = <<>>
    /\ ~pending_translation

\* C5: a debounce pass with a non-blank source and the answer Ok(t) leaves
\* t as the target pane's text, no error, nothing pending and the source
\* pane's text as it was.
C5_OkOverwrites ==
    [][(TranslateStep /\ ev'.calls # <<>> /\ ev'.calls[1].res.tag = "Ok") =>
          /\ textarea_text(IF active = "Left" THEN output' ELSE input')
                 = ev'.calls[1].res.val
          /\ textarea_text(IF active = "Left" THEN input' ELSE output')
                 = textarea_text(Pane(App, active))
          /\ error' = None
          /\ ~pending_translation']_vars

\* the left-to-right and the right-to-left call of a Nativize both step
CallLeftToRight == ev'.calls[1]
CallRightToLeft == ev'.calls[Len(ev'.calls)]

\* C6: a failed translation leaves the text of the pane it would have
\* written as it was and the error holds a failure message, in a debounce
\* pass and in either direction of Nativize both.
C6_FailureKeepsBuffer ==
    [][/\ (TranslateStep /\ ev'.calls # <<>> /\ ev'.calls[1].res.tag = "Err") =>
              /\ textarea_text(IF active = "Left" THEN output' ELSE input')
                     = textarea_text(Pane(App, Other(active)))
              /\ error' = Some(ev'.calls[1].res.val)
       /\ (/\ pc = "nativeize"
           /\ ~TrimIsEmpty(textarea_text(input))
           /\ CallLeftToRight.res.tag = "Err") =>
              /\ textarea_text(output') = textarea_text(output)
              /\ error' = Some(CallLeftToRight.res.val)
       /\ (/\ pc = "nativeize"
           /\ ~TrimIsEmpty(textarea_text(output))
           /\ CallRightToLeft.res.tag = "Err") =>
              /\ textarea_text(input') = textarea_text(input)
              /\ error' \in {Some(CallLeftToRight.res.val),
                             Some(CallRightToLeft.res.val)}]_vars

\* C7, as the spec states it: a translation is pending exactly when the
\* time of the last edit is set.
C7_PendingIffTimestamp == pending_translation <=> IsSome(last_edit)

\* C7, as the code has it: whenever a translation is pending the time of the
\* last edit is set; a debounce pass clears the pending flag alone, so the
\* time stays set with nothing pending.
C7_PendingHasTimestamp == pending_translation => IsSome(last_edit)

\* a pass has just gone past its guards: nothing is pending and the time of
\* the last edit is still set
C7_Witness ==
    /\ ev.op = "translate"
    /\ ev.pass
    /\ ~pending_translation
    /\ IsSome(last_edit)

\* C8: a key press handled with the picker closed that changes the text of
\* the active pane makes a translation pending, sets the time of the last
\* edit to now and clears the error.
C8_EditArms ==
    [][(/\ KeyStep
        /\ ev'.key.kind = "Press"
        /\ picker = None
        /\ textarea_text(IF active = "Left" THEN input' ELSE output')
               # textarea_text(Pane(App, active)))
          => /\ pending_translation'
             /\ last_edit' = Some(0)
             /\ error' = None]_vars

\* x has just deleted the only character of the right pane: the pane is
\* empty and a translation is pending
C8_Witness ==
    /\ ev.op = "key"
    /\ ev.key = Press("x")
    /\ ev.armed
    /\ active = "Right"
    /\ textarea_text(output) = <<>>
    /\ pending_translation
    /\ last_edit = Some(0)

\* the lines left when the span between two positions is taken out
WithoutSpan(ls, p, q) ==
    IF PosLess(q, p)
    THEN Take(ls, q[1])
             \o << Take(LineAt(ls, q[1]), q[2]) \o Drop(LineAt(ls, p[1]), p[2]) >>
             \o Drop(ls, p[1] + 1)
    ELSE Take(ls, p[1])
             \o << Take(LineAt(ls, p[1]), p[2]) \o Drop(LineAt(ls, q[1]), q[2]) >>
             \o Drop(ls, q[1] + 1)

\* the text of the span between two positions
SpanBetween(ls, p, q) ==
    IF PosLess(q, p) THEN ChunkBetween(ls, q, p) ELSE ChunkBetween(ls, p, q)

\* the keys that fall through the motion table in OperatorPending
FallsThrough(vim, inp) ==
    \/ ~inp.ctrl /\ inp.key \in {"h", "j", "k", "l", "w", "e", "b", "^", "$", "G"}
    \/ ~inp.ctrl /\ inp.key = "g" /\ vim.pending = [key |-> "g", ctrl |-> FALSE]
    \/ IsScrollKey(inp)
    \/ ~inp.ctrl /\ vim.mode = Operator(inp.key)

\* where the span of a motion starts: at the cursor, and at the head of the
\* line for the doubled operator key
SpanStart(vim, inp, ta) ==
    IF ~inp.ctrl /\ vim.mode = Operator(inp.key) THEN <<Row(ta), 0>> ELSE ta.cursor

\* the operator op, applied to the span from `from` to `to`, turns the pane
\* ta with its Vim state into the pane tb
Applied(op, ta, from, to, tb, vim_after) ==
    /\ vim_after.mode = IF op = "c" THEN Insert ELSE Normal
    /\ op \in {"d", "c"} => tb.lines = WithoutSpan(ta.lines, from, to)
    /\ op = "y" => /\ tb.lines = ta.lines
                   /\ from # to => tb.yank = SpanBetween(ta.lines, from, to)

\* a key step in which the active pane is in OperatorPending and the key
\* falls through the motion table
OperatorMotionStep ==
    /\ KeyStep
    /\ ev'.key.kind = "Press"
    /\ picker = None
    /\ VimOf(App, active).mode.name = "Operator"
    /\ FallsThrough(VimOf(App, active), textarea_input_from_key(ev'.key))

\* the operator was applied, in this step, to the span of the motion
OperatorApplied ==
    \E to \in ScrollTargets(App, ev'.key) :
        Applied(VimOf(App, active).mode.op,
                Pane(App, active),
                SpanStart(VimOf(App, active), textarea_input_from_key(ev'.key),
                          Pane(App, active)),
                Motion(VimOf(App, active), textarea_input_from_key(ev'.key),
                       Pane(App, active), to).val.cursor,
                IF active = "Left" THEN input' ELSE output',
                IF active = "Left" THEN left_vim' ELSE right_vim')

\* C9: when the active pane is in OperatorPending and a key falls through
\* the motion table, the operator is applied in that step to the span the
\* motion produced (the span is copied for yank and taken out for delete and
\* change) and the mode becomes Normal for yank and delete, Insert for
\* change.
C9_OperatorMotion == [][OperatorMotionStep => OperatorApplied]_vars

\* the same, for the panes that hold a selection anchor
C9_OperatorMotionAnchored ==
    [][(OperatorMotionStep /\ IsSome(Pane(App, active).sel)) => OperatorApplied]_vars

\* C10: d pressed twice from Normal on a non-empty buffer takes out the line
\* of the cursor, whichever line it is: the other lines stay in order, there
\* is one line less (the buffer is empty when it was the only line), and the
\* mode is Normal.
C10_DoubledDelete ==
    [][(/\ KeyStep
        /\ picker = None
        /\ ev'.key = Press("d")
        /\ VimOf(App, active).mode = Operator("d")
        /\ Pane(App, active).sel = Some(Pane(App, active).cursor)
        /\ textarea_text(Pane(App, active)) # <<>>)
          => /\ (IF active = "Left" THEN input' ELSE output').lines
                    = IF Len(Pane(App, active).lines) = 1 THEN << <<>> >>
                      ELSE Take(Pane(App, active).lines, Row(Pane(App, active)))
                               \o Drop(Pane(App, active).lines, Row(Pane(App, active)) + 1)
             /\ (IF active = "Left" THEN left_vim' ELSE right_vim').mode = Normal]_vars

\* a key step in which the active pane yanks: a key that falls through the
\* motion table in OperatorPending(y), or y in Visual
YankStep ==
    /\ KeyStep
    /\ ev'.key.kind = "Press"
    /\ picker = None
    /\ \/ /\ VimOf(App, active).mode = Operator("y")
          /\ FallsThrough(VimOf(App, active), textarea_input_from_key(ev'.key))
       \/ /\ VimOf(App, active).mode = Visual
          /\ ev'.key = Press("y")

\* C11: a yank (the doubled y, y followed by a motion, y in Visual) leaves
\* the text of the pane as it was and the mode Normal, and with them the
\* pending flag and the time of the last edit.
C11_YankKeepsText ==
    [][YankStep =>
          /\ textarea_text(IF active = "Left" THEN input' ELSE output')
                 = textarea_text(Pane(App, active))
          /\ (IF active = "Left" THEN left_vim' ELSE right_vim').mode = Normal
          /\ pending_translation' = pending_translation
          /\ last_edit' = last_edit]_vars

\* the doubled y has just copied a line of the left pane
C11_Witness ==
    /\ ev.op = "key"
    /\ ev.key = Press("y")
    /\ ev.mode = Operator("y")
    /\ active = "Left"
    /\ input.yank = << <<"a", "b">>, <<>> >>
    /\ input.lines = << <<"a", "b">>, <<"b">> >>
    /\ left_vim.mode = Normal
    /\ ~pending_translation

\* the active pane after the step is in Normal with no pending input and
\* holds the lines it held
BackInNormal ==
    /\ (IF active = "Left" THEN left_vim' ELSE right_vim') = NewVim(Normal)
    /\ (IF active = "Left" THEN input' ELSE output').lines = Pane(App, active).lines

\* C12: with the active pane in Insert, the exit key (Escape, or the cancel
\* key Ctrl+C) leaves the pane in Normal with no pending input and inserts
\* nothing.
C12_ExitKeyLeavesInsert ==
    [][(/\ KeyStep
        /\ picker = None
        /\ VimOf(App, active).mode = Insert
        /\ ev'.key \in {Press("Esc"), Ctrl("c")})
          => BackInNormal]_vars

\* the same for Escape alone
C12_EscapeLeavesInsert ==
    [][(/\ KeyStep
        /\ picker = None
        /\ VimOf(App, active).mode = Insert
        /\ ev'.key = Press("Esc"))
          => BackInNormal]_vars

\* the key is handed to the Vim of the active pane: a press, with the picker
\* closed, that App::handle_key does not take itself
ReachesVim(key) ==
    /\ key.kind = "Press"
    /\ picker = None
    /\ ~(key.ctrl /\ key.code \in {"c", "h", "l", "n", "r", "Backspace"})
    /\ key.code # "Tab"

\* the first key of gg is the pending input
PendingG(vim) == vim.pending = [key |-> "g", ctrl |-> FALSE]

\* C13: outside Insert, g moves the cursor only when g is the pending input,
\* and any other key that arrives while g is pending drops the pending g (so
\* that g, another key, g does not go to the top).
C13_PendingGDropped ==
    [][(KeyStep /\ ReachesVim(ev'.key) /\ VimOf(App, active).mode # Insert) =>
          /\ (ev'.key = Press("g") /\ ~PendingG(VimOf(App, active)))
                 => (IF active = "Left" THEN input' ELSE output').cursor
                        = Pane(App, active).cursor
          /\ (ev'.key # Press("g") /\ PendingG(VimOf(App, active)))
                 => ~PendingG(IF active = "Left" THEN left_vim' ELSE right_vim')]_vars

\* C14: in Visual mode, Escape, or the key that entered the mode pressed
\* again (v after v, V after V), cancels the selection and returns the pane to
\* Normal with its text unchanged.
C14_VisualCancelled ==
    [][(/\ KeyStep
        /\ ReachesVim(ev'.key)
        /\ VimOf(App, active).mode = Visual
        /\ ev'.key \in {Press("Esc"), Press(visual_by[active])}) =>
          /\ (IF active = "Left" THEN left_vim' ELSE right_vim').mode = Normal
          /\ (IF active = "Left" THEN input' ELSE output').sel = None
          /\ (IF active = "Left" THEN input' ELSE output').lines
                 = Pane(App, active).lines]_vars

\* the part of C14 the code keeps: Escape and v leave Visual mode however it
\* was entered
C14_EscapeOrSmallVCancels ==
    [][(/\ KeyStep
        /\ ReachesVim(ev'.key)
        /\ VimOf(App, active).mode = Visual
        /\ ev'.key \in {Press("Esc"), Press("v")}) =>
          /\ (IF active = "Left" THEN left_vim' ELSE right_vim').mode = Normal
          /\ (IF active = "Left" THEN input' ELSE output').sel = None
          /\ (IF active = "Left" THEN input' ELSE output').lines
                 = Pane(App, active).lines]_vars

\* C15: a pane whose mode is OperatorPending has a selection anchor, in every
\* reachable state: also after Ctrl+R, a debounce pass or Nativize both has
\* replaced the pane's buffer.
C15_OperatorHasAnchor ==
    \A side \in Sides :
        VimOf(App, side).mode.name = "Operator" => Pane(App, side).sel # None

\* the part of C15 the code keeps: the key that enters OperatorPending sets
\* the anchor
C15_EnteringOperatorAnchors ==
    [][(/\ KeyStep
        /\ ReachesVim(ev'.key)
        /\ VimOf(App, active).mode.name # "Operator"
        /\ (IF active = "Left" THEN left_vim' ELSE right_vim').mode.name = "Operator") =>
          (IF active = "Left" THEN input' ELSE output').sel # None]_vars

\* a press of Enter is handled by the open picker
PickerEnterStep ==
    KeyStep /\ IsSome(picker) /\ ev'.key.kind = "Press" /\ ev'.key.code = "Enter"

\* the list the open picker shows
Filtered == filtered_language_indices(picker.val.query)

\* C16: Enter in the picker with a non-empty filtered list stores the catalog
\* index at the selected position in the language slot of the picker's side
\* and leaves the other slot alone, closes the picker, and arms a translation
\* with a fresh edit time.
C16_EnterCommits ==
    [][(PickerEnterStep /\ Filtered # <<>>) =>
          /\ picker.val.selected < Len(Filtered)
          /\ IF picker.val.side = "Left"
             THEN /\ left_language' = Filtered[picker.val.selected + 1]
                  /\ right_language' = right_language
             ELSE /\ right_language' = Filtered[picker.val.selected + 1]
                  /\ left_language' = left_language
          /\ picker' = None
          /\ pending_translation'
          /\ last_edit' = Some(0)]_vars

\* the right picker listed German, Portuguese, English for "ge"; Down, Enter
\* has stored Portuguese on the right and left English on the left
C16_Witness ==
    /\ ev.op = "key" /\ ev.key = Press("Enter")
    /\ picker = None
    /\ left_language = 0
    /\ right_language = 5
    /\ pending_translation
    /\ last_edit = Some(0)

\* C17: Enter in the picker when the filtered list is empty closes the picker
\* and changes nothing else: the language slots, the pending flag, the edit
\* time and the error keep their values, and so do the panes.
C17_EnterOnEmptyList ==
    [][(PickerEnterStep /\ Filtered = <<>>) =>
          /\ picker' = None
          /\ UNCHANGED <<left_language, right_language, pending_translation,
                         last_edit, error>>
          /\ UNCHANGED <<active, input, output, left_vim, right_vim>>]_vars

\* no language matches a query with an x in it: Enter has closed the picker
\* of a session that was never armed, and nothing is pending
C17_Witness ==
    /\ ev.op = "key" /\ ev.key = Press("Enter")
    /\ picker = None
    /\ ~pending_translation
    /\ last_edit = None
    /\ left_language = NewApp.left_language
    /\ right_language = NewApp.right_language

\* a press of Escape is handled by the open picker
PickerEscapeStep ==
    KeyStep /\ IsSome(picker) /\ IsSome(at_open) /\ ev'.key = Press("Esc")

\* C18 as stated: Escape closes the picker, and both language slots, both
\* buffers, the pending flag and the edit time are what they were before the
\* picker was opened.
C18_EscapeRestores ==
    [][PickerEscapeStep =>
          /\ picker' = None
          /\ Snapshot(App)' = at_open.val]_vars

\* C18, amended: Escape closes the picker and that key changes nothing else;
\* the language slots and the presence of an edit time are what they were
\* when the picker was opened, and so are the buffers and the pending flag
\* unless a debounce pass ran while the picker was open, which can only turn
\* a pending translation off.
C18_EscapeCommitsNothing ==
    [][PickerEscapeStep =>
          /\ picker' = None
          /\ UNCHANGED <<active, input, output, left_vim, right_vim, left_language,
                         right_language, pending_translation, last_edit, error>>
          /\ left_language' = at_open.val.left_language
          /\ right_language' = at_open.val.right_language
          /\ IsSome(last_edit') = at_open.val.timestamp_set
          /\ pending_translation' => at_open.val.pending_translation
          /\ (pending_translation' = at_open.val.pending_translation)
                 => Snapshot(App)' = at_open.val]_vars

\* Escape has closed a picker that was opened over a pending translation,
\* before the debounce pass: the translation is still pending
C18_Witness ==
    /\ ev.op = "key" /\ ev.key = Press("Esc")
    /\ picker = None
    /\ at_open = None
    /\ pending_translation
    /\ fired = 0

\* the selection of the open picker is a position of the list it shows
SelectionInRange ==
    IsSome(picker) =>
        IF Filtered = <<>> THEN picker.val.selected = 0
        ELSE picker.val.selected \in 0..(Len(Filtered) - 1)

\* Up and Down, handled by the open picker, move the selection by exactly
\* one, except Up at index 0 and Down at the last index, which leave it
UpDownStep ==
    (KeyStep /\ IsSome(picker) /\ ev'.key \in {Press("Up"), Press("Down")}) =>
        /\ IsSome(picker')
        /\ picker'.val.query = picker.val.query
        /\ picker'.val.selected =
               IF ev'.key = Press("Up")
               THEN (IF picker.val.selected = 0 THEN 0 ELSE picker.val.selected - 1)
               ELSE (IF picker.val.selected + 1 >= Len(Filtered)
                     THEN picker.val.selected
                     ELSE picker.val.selected + 1)

\* C19: while the picker is open its selection lies in [0, count-1] of the
\* list filtered by the current query when that list is non-empty and is 0
\* when it is empty; Up and Down move it by exactly one and do not wrap.
C19_SelectionInBounds == []SelectionInRange /\ [][UpDownStep]_vars

\* "ger" lists German alone: Down at the last index has left the selection
\* where it was
C19_Witness ==
    /\ ev.op = "key" /\ ev.key = Press("Down")
    /\ IsSome(picker)
    /\ picker.val.query = <<"g", "e", "r">>
    /\ Filtered = <<3>>
    /\ picker.val.selected = 0

\* the characters of q occur in c in left-to-right order
RECURSIVE IsSubsequence(_, _)
IsSubsequence(q, c) ==
    IF q = <<>> THEN TRUE
    ELSE IF c = <<>> THEN FALSE
    ELSE IF Head(q) = Head(c) THEN IsSubsequence(Tail(q), Tail(c))
    ELSE IsSubsequence(q, Tail(c))

\* the catalog entries (0-based) whose candidate contains the lowercased query
\* as a subsequence
SubsequenceMatches(query) ==
    {i - 1 : i \in {j \in 1..Len(LANGUAGES) :
                       IsSubsequence(to_ascii_lowercase(query), Candidate(j))}}

\* the list is exactly the subsequence matches, each once
ExactlyTheMatches(query) ==
    With(filtered_language_indices(query), LAMBDA list :
        /\ {list[k] : k \in 1..Len(list)} = SubsequenceMatches(query)
        /\ Len(list) = Cardinality(SubsequenceMatches(query)))

\* C20 as stated: for every non-empty query, filtered_language_indices returns
\* exactly the catalog entries whose candidate contains the lowercased query
\* as a subsequence, and none twice.
C20_NonEmptyQueryMatches ==
    (IsSome(picker) /\ picker.val.query # <<>>) => ExactlyTheMatches(picker.val.query)

\* C20, amended: the same for every query that has a character other than
\* white space; a query of white space alone is answered like the empty
\* query, with the whole catalog in catalog order.
C20_NonBlankQueryMatches ==
    IsSome(picker) =>
        IF TrimIsEmpty(picker.val.query)
        THEN filtered_language_indices(picker.val.query)
                 = [i \in 1..Len(LANGUAGES) |-> i - 1]
        ELSE ExactlyTheMatches(picker.val.query)

\* the picker holds the query "ger": the list is German (DE) alone, and
\* English, which has g, e and r in another order, is left out
C20_Witness ==
    /\ IsSome(picker)
    /\ picker.val.query = <<"g", "e", "r">>
    /\ filtered_language_indices(picker.val.query) = <<3>>
    /\ LANGUAGES[4].code = <<"D", "E">>
    /\ ~IsSubsequence(picker.val.query, Candidate(1))

\* the number of characters of c skipped to find the characters of q, one
\* after the other, where q is a subsequence of c
RECURSIVE SkipScore(_, _)
SkipScore(q, c) ==
    IF q = <<>> THEN 0
    ELSE IF Head(q) = Head(c) THEN SkipScore(Tail(q), Tail(c))
    ELSE 1 + SkipScore(q, Tail(c))

\* the score of a listed entry (0-based) for a query
ListedScore(query, index) == SkipScore(to_ascii_lowercase(query), Candidate(index + 1))

\* every entry of the list matches, scores ascend along the list, and equal
\* scores are in the lexical order of the names
OrderedByScore(query, list) ==
    /\ \A k \in 1..Len(list) :
           IsSubsequence(to_ascii_lowercase(query), Candidate(list[k] + 1))
    /\ \A k \in 1..(Len(list) - 1) :
           \/ ListedScore(query, list[k]) < ListedScore(query, list[k + 1])
           \/ /\ ListedScore(query, list[k]) = ListedScore(query, list[k + 1])
              /\ StrLess(LANGUAGES[list[k] + 1].name, LANGUAGES[list[k + 1] + 1].name)

\* C21 as stated: for every non-empty query, a query of spaces included, the
\* list is in ascending order of score, equal scores in the lexical order of
\* the display names.
C21_NonEmptyQuerySorted ==
    (IsSome(picker) /\ picker.val.query # <<>>) =>
        With(filtered_language_indices(picker.val.query), LAMBDA list :
            OrderedByScore(picker.val.query, list))

\* C21, amended: the same for every query that has a character other than
\* white space.
C21_NonBlankQuerySorted ==
    (IsSome(picker) /\ ~TrimIsEmpty(picker.val.query)) =>
        With(filtered_language_indices(picker.val.query), LAMBDA list :
            OrderedByScore(picker.val.query, list))

\* "r" lists Russian (0), French (1), then German, Korean, Portuguese, all of
\* score 2, by name: the catalog has Portuguese before Korean
C21_Witness ==
    /\ IsSome(picker)
    /\ picker.val.query = <<"r">>
    /\ filtered_language_indices(picker.val.query) = <<8, 2, 3, 11, 5>>
    /\ ListedScore(picker.val.query, 11) = ListedScore(picker.val.query, 5)

\* C22: the empty query returns every catalog index 0..N-1 once, in catalog
\* order: nothing is scored or sorted.
C22_EmptyQueryWholeCatalog ==
    (IsSome(picker) /\ picker.val.query = <<>>) =>
        With(filtered_language_indices(picker.val.query), LAMBDA list :
            /\ Len(list) = Len(LANGUAGES)
            /\ \A k \in 1..Len(list) : list[k] = k - 1)

\* three presses of Down in a picker with the empty query have reached the
\* fourth entry of the catalog, German
C22_Witness ==
    /\ ev.op = "key" /\ ev.key = Press("Down")
    /\ IsSome(picker)
    /\ picker.val.query = <<>>
    /\ picker.val.selected = 3
    /\ filtered_language_indices(picker.val.query)[picker.val.selected + 1] = 3

\* C23: in every reachable state the language slots of both panes are
\* positions of the catalog, so LANGUAGES.get never falls back to entry 0.
C23_LanguagesInCatalog ==
    /\ left_language \in 0..(Len(LANGUAGES) - 1)
    /\ right_language \in 0..(Len(LANGUAGES) - 1)
    /\ LanguageAt(left_language) = LANGUAGES[left_language + 1]
    /\ LanguageAt(right_language) = LANGUAGES[right_language + 1]

\* the left picker listed German, Portuguese, English for "ge"; Down, Enter
\* has committed Portuguese on the left, next to the initial Spanish
C23_Witness ==
    /\ ev.op = "key" /\ ev.key = Press("Enter")
    /\ picker = None
    /\ left_language = 5
    /\ right_language = NewApp.right_language
    /\ LanguageAt(left_language).code = <<"P", "T">>

\* the step of run_app that runs nativeize_both
NativeizeStep == pc = "nativeize" /\ ev'.op = "nativeize"

\* C24: Nativize both with two blank panes (empty or white space only) is a
\* no-op: the Translator is not called, and neither pane nor the error nor
\* anything else of the session changes.
C24_BlankNativeizeIsNoOp ==
    [][(NativeizeStep /\ IsBlank(textarea_text(input)) /\ IsBlank(textarea_text(output))) =>
          /\ ev'.calls = <<>>
          /\ UNCHANGED <<input, output, error>>
          /\ UNCHANGED <<active, left_vim, right_vim, left_language, right_language,
                         pending_translation, last_edit, picker>>]_vars

\* i, space, Ctrl+N: the left pane holds one space with the cursor behind
\* it, the right pane is empty, and Nativize both has called nothing
C24_Witness ==
    /\ ev.op = "nativeize"
    /\ ev.calls = <<>>
    /\ textarea_text(input) = <<" ">>
    /\ input.cursor = <<0, 1>>
    /\ textarea_text(output) = <<>>

\* C25 as stated: every Nativize both ends with nothing pending and the time
\* of the last edit unset, whatever the panes held.
C25_NativeizeAlwaysClears ==
    [][NativeizeStep => (~pending_translation' /\ last_edit' = None)]_vars

\* C25, amended: a Nativize both over at least one pane that is not blank
\* ends with nothing pending and the time of the last edit unset, whether or
\* not a translation was pending and whatever the Translator answered; over
\* two blank panes it leaves both as they were.
C25_NativeizeClearsUnlessBlank ==
    [][NativeizeStep =>
          IF IsBlank(textarea_text(input)) /\ IsBlank(textarea_text(output))
          THEN UNCHANGED <<pending_translation, last_edit>>
          ELSE ~pending_translation' /\ last_edit' = None]_vars

\* i, a, Ctrl+N: the edit was pending, the left-to-right call has failed, and
\* nothing is pending any more
C25_Witness ==
    /\ ev.op = "nativeize"
    /\ Len(ev.calls) = 1
    /\ ev.calls[1].res.tag = "Err"
    /\ error = Some(ev.calls[1].res.val)
    /\ ~pending_translation
    /\ last_edit = None

\* C26: in a Nativize both over at least one pane that is not blank, a
\* direction whose source is blank makes no Translator call; each direction
\* with a source is called with that source and writes its successful result
\* whatever the other direction answered; and when both directions fail the
\* error is the message of the left-to-right failure.
C26_NativeizeDirections ==
    [][(/\ NativeizeStep
        /\ ~(IsBlank(textarea_text(input)) /\ IsBlank(textarea_text(output)))) =>
          /\ Len(ev'.calls) = (IF IsBlank(textarea_text(input)) THEN 0 ELSE 1)
                                  + (IF IsBlank(textarea_text(output)) THEN 0 ELSE 1)
          /\ ~IsBlank(textarea_text(input)) =>
                 /\ CallLeftToRight.text = textarea_text(input)
                 /\ CallLeftToRight.source_lang = LangCode(App, "Left")
                 /\ CallLeftToRight.target_lang = LangCode(App, "Right")
                 /\ CallLeftToRight.res.tag = "Ok"
                        => output' = set_textarea_text(CallLeftToRight.res.val)
          /\ ~IsBlank(textarea_text(output)) =>
                 /\ CallRightToLeft.text = textarea_text(output)
                 /\ CallRightToLeft.source_lang = LangCode(App, "Right")
                 /\ CallRightToLeft.target_lang = LangCode(App, "Left")
                 /\ CallRightToLeft.res.tag = "Ok"
                        => input' = set_textarea_text(CallRightToLeft.res.val)
          /\ (/\ Len(ev'.calls) = 2
              /\ CallLeftToRight.res.tag = "Err"
              /\ CallRightToLeft.res.tag = "Err") =>
                 error' = Some(CallLeftToRight.res.val)]_vars

\* both panes had text: the left-to-right call has failed and its message is
\* the error, the right-to-left call has answered and the left pane holds
\* its translation
C26_Witness ==
    /\ ev.op = "nativeize"
    /\ Len(ev.calls) = 2
    /\ ev.calls[1].res.tag = "Err"
    /\ ev.calls[2].res.tag = "Ok"
    /\ input = set_textarea_text(ev.calls[2].res.val)
    /\ textarea_text(output) = ev.calls[2].text
    /\ error = Some(ev.calls[1].res.val)

\* Nativize both over a left pane with text and an empty right pane, with a
\* Translator that answers
LeftToRightAnswered ==
    /\ NativeizeStep
    /\ ~IsBlank(textarea_text(input))
    /\ textarea_text(output) = <<>>
    /\ CallLeftToRight.res.tag = "Ok"

\* C27: Nativize both with a left pane that is not blank, an empty right pane
\* and a Translator that succeeds leaves the translation of the left text as
\* the text of the right pane, the text of the left pane as it was, whatever
\* it was, and no error.
C27_NativeizeLeftToRight ==
    [][LeftToRightAnswered =>
          /\ CallLeftToRight.text = textarea_text(input)
          /\ textarea_text(output') = CallLeftToRight.res.val
          /\ textarea_text(input') = textarea_text(input)
          /\ error' = None]_vars

\* the part of C27 the code keeps: both panes are rebuilt from the lines of
\* the translation and of the left text, and no error is recorded
C27_NativeizeRebuildsFromLines ==
    [][LeftToRightAnswered =>
          /\ Len(ev'.calls) = 1
          /\ CallLeftToRight.text = textarea_text(input)
          /\ output' = set_textarea_text(CallLeftToRight.res.val)
          /\ input' = set_textarea_text(textarea_text(input))
          /\ error' = None]_vars

\* the pane a debounce pass reads and the pane it writes, by the active side
\* at the start of the step
SourcePane == IF active = "Left" THEN input ELSE output
TargetPane == IF active = "Left" THEN output ELSE input

\* a debounce pass that calls the Translator is one step: the text and the
\* languages it sends are those of the active pane as the step finds it, the
\* step leaves the active side and the source pane alone, and it writes the
\* answer to the other pane, or leaves that pane alone on a failure
PassIsOneStep ==
    (TranslateStep /\ ev'.calls # <<>>) =>
        /\ Len(ev'.calls) = 1
        /\ ev'.calls[1].text = textarea_text(SourcePane)
        /\ ev'.calls[1].source_lang = LangCode(App, active)
        /\ ev'.calls[1].target_lang =
               LangCode(App, IF active = "Left" THEN "Right" ELSE "Left")
        /\ active' = active
        /\ SourcePane' = SourcePane
        /\ TargetPane' = IF ev'.calls[1].res.tag = "Ok"
                         THEN set_textarea_text(ev'.calls[1].res.val)
                         ELSE TargetPane

\* keys are handled only where run_app polls, and the Translator is called
\* only in the steps of maybe_translate and nativeize_both: no key is handled
\* between the reading of a source and the writing of its answer
KeysOnlyAtPoll ==
    /\ ev'.op = "key" => pc = "poll"
    /\ ev'.calls # <<>> => (pc \in {"translate", "nativeize"} /\ ev'.key = NoKey)

\* C28: the source text and the direction of a translation request are read
\* in the step that writes the answer, and no key is handled in between: the
\* answer is written to the pane chosen when the source was read, over
\* content no newer than that source.
C28_SnapshotAtDispatch == [][PassIsOneStep /\ KeysOnlyAtPoll]_vars

\* after a switch to the right pane and an edit there, the pass has sent the
\* right pane's text and the left pane holds the answer
C28_Witness ==
    /\ ev.op = "translate"
    /\ Len(ev.calls) = 1
    /\ active = "Right"
    /\ edited = Some("Right")
    /\ ev.calls[1].text = textarea_text(output)
    /\ ev.calls[1].res.tag = "Ok"
    /\ input = set_textarea_text(ev.calls[1].res.val)

\* C29: only press events act. A key event of another kind leaves the whole
\* session as it was (active side, both panes, both modes and pending keys,
\* languages, pending flag, edit time, error, picker) and returns no action,
\* with the picker open or closed.
C29_OnlyPressActs ==
    [][(KeyStep /\ ev'.key.kind # "Press") =>
          /\ UNCHANGED <<active, input, output, left_vim, right_vim, left_language,
                         right_language, pending_translation, last_edit, error, picker>>
          /\ pc' = "translate"]_vars

\* a release has arrived while the picker was open on the query "ger": the
\* query and the selection are as they were
C29_Witness ==
    /\ ev.op = "key"
    /\ ev.key.kind = "Release"
    /\ IsSome(picker)
    /\ picker.val.query = <<"g", "e", "r">>
    /\ picker.val.selected = 0

\* C30: with the picker closed, Tab switches the active side and changes
\* nothing else; and App::handle_key leaves the pane that is not active
\* alone, whatever the key: its buffer, its Mode and its pending input.
C30_KeyRouting ==
    [][KeyStep =>
          /\ (picker = None /\ ev'.key = Press("Tab")) =>
                 /\ active' = (IF active = "Left" THEN "Right" ELSE "Left")
                 /\ UNCHANGED <<input, output, left_vim, right_vim, pending_translation,
                                last_edit, left_language, right_language, error, picker>>
          /\ IF active = "Left"
             THEN UNCHANGED <<output, right_vim>>
             ELSE UNCHANGED <<input, left_vim>>]_vars

\* Tab, i, a: the right pane is active and in Insert mode with the a typed,
\* the left pane is empty and in Normal mode as it was
C30_Witness ==
    /\ ev.op = "key" /\ ev.key = Press("a")
    /\ active = "Right"
    /\ right_vim.mode = Insert
    /\ textarea_text(output) = <<"a">>
    /\ input = NewApp.input
    /\ left_vim = NewApp.left_vim

\* C31: Ctrl+R with the picker closed empties the buffer of the active pane,
\* leaves the other pane, both modes and both pending inputs alone, and arms
\* a translation, also when the buffer was empty and whatever the Mode; the
\* redo of the editor, bound to the same key, is never run.
C31_CtrlRClearsActive ==
    [][(KeyStep /\ picker = None /\ ev'.key = Ctrl("r")) =>
          /\ IF active = "Left"
             THEN input' = DefaultTextArea /\ output' = output
             ELSE output' = DefaultTextArea /\ input' = input
          /\ UNCHANGED <<active, left_vim, right_vim>>
          /\ pending_translation'
          /\ last_edit' = Some(0)]_vars

\* Ctrl+R as the third key has emptied the left pane, whatever it held and
\* whatever there was to redo, and the right pane holds its text
C31_Witness ==
    /\ ev.op = "key" /\ ev.key = Ctrl("r")
    /\ keys_left = 0
    /\ active = "Left"
    /\ input = DefaultTextArea
    /\ textarea_text(output) = <<"b">>
    /\ pending_translation
    /\ since_arm = Some(0)

\* the Vim of the active pane after the step
ActiveVimAfter == IF active = "Left" THEN left_vim' ELSE right_vim'

\* C32: the pending input is cleared on every mode transition. After a key
\* for which Vim::transition answers Mode(m), the same Mode included (a
\* literal key in Insert, a direct command in Normal), the pane is in m with
\* no pending input; and no step changes the Mode of a pane and leaves it a
\* pending input.
C32_ModeClearsPending ==
    [][/\ (KeyStep /\ ReachesVim(ev'.key)) =>
              \A to \in ScrollTargets(App, ev'.key) :
                  With(transition(VimOf(App, active), textarea_input_from_key(ev'.key),
                                  Pane(App, active), to).tr, LAMBDA tr :
                      tr.kind = "Mode" => ActiveVimAfter = NewVim(tr.mode))
       /\ left_vim'.mode # left_vim.mode => left_vim'.pending = NullInput
       /\ right_vim'.mode # right_vim.mode => right_vim'.pending = NullInput]_vars

\* i, a, a: the second a was typed in Insert mode, which answers
\* Mode(Insert); the pane is in Insert with no pending input
C32_Witness ==
    /\ ev.op = "key" /\ ev.key = Press("a")
    /\ ev.mode = Insert
    /\ left_vim = NewVim(Insert)
    /\ textarea_text(input) = <<"a", "a">>

\* the active pane after the step
ActivePaneAfter == IF active = "Left" THEN input' ELSE output'

\* C33: in Visual mode y, d and c move the cursor one position forward and
\* then copy (y) or cut (d, c) the selection, from the anchor to the moved
\* cursor; afterwards the Mode is Normal for y and d and Insert for c, and no
\* selection is left.
C33_VisualOperator ==
    [][(/\ KeyStep
        /\ ReachesVim(ev'.key)
        /\ VimOf(App, active).mode = Visual
        /\ ev'.key \in {Press("y"), Press("d"), Press("c")}) =>
          /\ ActivePaneAfter.sel = None
          /\ ActiveVimAfter = NewVim(IF ev'.key.code = "c" THEN Insert ELSE Normal)
          /\ IF IsSome(Pane(App, active).sel)
             THEN Applied(ev'.key.code,
                          Pane(App, active),
                          Pane(App, active).sel.val,
                          move_cursor(Pane(App, active), "Forward").cursor,
                          ActivePaneAfter,
                          ActiveVimAfter)
             ELSE ActivePaneAfter.lines = Pane(App, active).lines]_vars

\* v, d on the a of "ab": the selection reached from the a to the cursor on
\* it; d has cut the a itself, and the pane is in Normal mode with no
\* selection
C33_Witness ==
    /\ ev.op = "key" /\ ev.key = Press("d")
    /\ ev.mode = Visual
    /\ left_vim = NewVim(Normal)
    /\ input.sel = None
    /\ input.yank = << <<"a">> >>
    /\ input.lines[1] = <<"b">>

\* keys that match no motion and no command: Escape or v in OperatorPending,
\* and a first g outside Insert
NamedUnrecognized ==
    \/ VimOf(App, active).mode.name = "Operator" /\ ev'.key \in {Press("Esc"), Press("v")}
    \/ /\ VimOf(App, active).mode # Insert
       /\ ev'.key = Press("g")
       /\ ~PendingG(VimOf(App, active))

\* Vim::transition answers Pending for the key of the step
AnswersPending ==
    /\ VimOf(App, active).mode # Insert
    /\ \E to \in ScrollTargets(App, ev'.key) :
           transition(VimOf(App, active), textarea_input_from_key(ev'.key),
                      Pane(App, active), to).tr.kind = "Pending"

\* C34: a key that matches no motion and no command in Normal, Visual or
\* OperatorPending only becomes the pending input: the Mode, the text, the
\* cursor and the selection of the pane are unchanged, no translation is
\* armed, and handle_key returns no action.
C34_UnrecognizedKeyPends ==
    [][(KeyStep /\ ReachesVim(ev'.key) /\ (NamedUnrecognized \/ AnswersPending)) =>
          /\ ActiveVimAfter = [mode |-> VimOf(App, active).mode,
                               pending |-> textarea_input_from_key(ev'.key)]
          /\ ActivePaneAfter = Pane(App, active)
          /\ UNCHANGED <<pending_translation, last_edit, error>>
          /\ pc' = "translate"]_vars

\* d, Escape: the pane is still in OperatorPending for d, with its anchor,
\* and Escape is the pending input
C34_Witness ==
    /\ ev.op = "key" /\ ev.key = Press("Esc")
    /\ left_vim = [mode |-> Operator("d"), pending |-> [key |-> "Esc", ctrl |-> FALSE]]
    /\ IsSome(input.sel)
    /\ ~pending_translation

\* a press handled by the picker that leaves the picker open
PickerKeyStep ==
    KeyStep /\ IsSome(picker) /\ IsSome(picker') /\ ev'.key.kind = "Press"

\* the selection is not sent back to the top: Up moves it one up at most,
\* Down never moves it up, any other key leaves it
SelectionNotReset ==
    IF ev'.key.code = "Up"
    THEN picker'.val.selected >= picker.val.selected - 1
    ELSE IF ev'.key.code = "Down"
         THEN picker'.val.selected >= picker.val.selected
         ELSE picker'.val.selected = picker.val.selected

\* C35 as stated: a picker key that changes the query sends the selection to
\* 0, and a key that does not change the query does not reset the selection.
C35_ResetIffQueryChanges ==
    [][PickerKeyStep =>
          IF picker'.val.query # picker.val.query
          THEN picker'.val.selected = 0
          ELSE SelectionNotReset]_vars

\* C35, amended: an accepted character and every Backspace, the Backspace on
\* an empty query included, send the selection to 0; so does every key that
\* changes the query; Up, Down, a character rejected because the query has
\* 32 bytes, and every other key (Ctrl+C, which quits, among them) leave the
\* query and do not reset the selection.
C35_ResetOnCharAndBackspace ==
    [][PickerKeyStep =>
          /\ picker'.val.query # picker.val.query => picker'.val.selected = 0
          /\ IF ev'.key.code = "Backspace"
             THEN /\ picker'.val.selected = 0
                  /\ picker'.val.query =
                         SubSeq(picker.val.query, 1, Len(picker.val.query) - 1)
             ELSE IF /\ IsCharCode(ev'.key.code)
                     /\ ev'.key # Ctrl("c")
                     /\ Len(picker.val.query) < MaxQueryLen
                  THEN /\ picker'.val.selected = 0
                       /\ picker'.val.query = Append(picker.val.query, ev'.key.code)
                  ELSE /\ picker'.val.query = picker.val.query
                       /\ SelectionNotReset]_vars

\* the query has 32 spaces and lists the whole catalog; after Down the g was
\* rejected, and the selection is still on the second entry
C35_Witness ==
    /\ ev.op = "key" /\ ev.key = Press("g")
    /\ IsSome(picker)
    /\ Len(picker.val.query) = MaxQueryLen
    /\ picker.val.selected = 1

\* run_app never stops looping: a poll that sees no key times out, and the
\* calls of nativeize_both and maybe_translate return
LiveSpec ==
    /\ Init
    /\ [][Next]_vars
    /\ WF_vars(PollTimeout)
    /\ WF_vars(\E res_lr \in Answers(textarea_text(input)) :
                   \E res_rl \in Answers(textarea_text(output)) : Nativeize(res_lr, res_rl))
    /\ WF_vars(\E res \in PassAnswers(App) : MaybeTranslate(res))

C37_PendingShowsNoError ==
    pending_translation => error = None

\* the last key of the session edited the pane: the cycle is armed, the
\* clock restarted, and no error is shown
C37_Witness ==
    /\ ev.op = "key"
    /\ ev.armed
    /\ keys_left = 0
    /\ pending_translation
    /\ last_edit = Some(0)
    /\ error = None

\* C38: a key that the active pane's Vim handles without changing the pane's
\* text (a motion, a scroll, a change of mode, a yank, an unrecognized key)
\* leaves the pending flag, the time of the last edit and the error as they
\* were.
C38_NoEditNoArming ==
    [][(/\ KeyStep
        /\ ReachesVim(ev'.key)
        /\ textarea_text(ActivePaneAfter) = textarea_text(Pane(App, active)))
          => UNCHANGED <<pending_translation, last_edit, error>>]_vars

\* a debounce pass failed, and then a yank in Visual mode left the text, the
\* error and the cleared pending flag as they were
C38_Witness ==
    /\ ev.op = "key"
    /\ ev.key = Press("y")
    /\ ev.mode = Visual
    /\ ~ev.armed
    /\ picker = None
    /\ error # None
    /\ ~pending_translation
    /\ IsSome(last_edit)

\* C39: while the picker is open every key event goes to the picker. No key
\* changes a buffer, a pane's mode or pending input, or the active side; and
\* no key but Enter changes a language, the picker's side or the translation
\* cycle, or asks for Nativize both. Only Enter and Escape close the picker.
C39_PickerConsumesKeys ==
    [][(KeyStep /\ picker # None) =>
          /\ UNCHANGED <<input, output, left_vim, right_vim, active>>
          /\ pc' # "nativeize"
          /\ picker' = None <=> (ev'.key.kind = "Press" /\ ev'.key.code \in {"Esc", "Enter"})
          /\ picker' # None => picker'.val.side = picker.val.side
          /\ ~(ev'.key.kind = "Press" /\ ev'.key.code = "Enter") =>
                UNCHANGED <<left_language, right_language,
                            pending_translation, last_edit, error>>]_vars

\* Ctrl+N pressed in the open picker: it was typed into the query as the
\* letter n, and the loop goes on to the debounce pass, not to Nativize both
C39_Witness ==
    /\ ev.op = "key"
    /\ ev.key = Ctrl("n")
    /\ picker # None
    /\ picker.val.query = <<"n">>
    /\ pc = "translate"

\* C40: Nativize both on two non-blank panes translates what each pane held
\* when the command started. The right-to-left call carries the right
\* pane's text from before the command, not the translation made for the
\* right pane; and when both calls succeed, the left pane's text is the
\* answer to the right-to-left call and the right pane's text the answer to
\* the left-to-right call.
C40_NativeizeUsesOriginals ==
    [][(/\ NativeizeStep
        /\ ~IsBlank(textarea_text(input))
        /\ ~IsBlank(textarea_text(output))) =>
          /\ Len(ev'.calls) = 2
          /\ CallLeftToRight.text = textarea_text(input)
          /\ CallRightToLeft.text = textarea_text(output)
          /\ (CallLeftToRight.res.tag = "Ok" /\ CallRightToLeft.res.tag = "Ok") =>
                 /\ textarea_text(input') = CallRightToLeft.res.val
                 /\ textarea_text(output') = CallLeftToRight.res.val]_vars

====
